---- MODULE Spec2Model ----
(***************************************************************************)
(* Duckling task execution plane: the warm pool manager                    *)
(* (warm_pool/pool_manager.py), the task queue and the pipeline driver     *)
(* (orchestrator/services/pipeline.py), on one asyncio event loop.         *)
(* A step of the model is what one coroutine does between two suspension   *)
(* points (awaits that yield to the loop).                                 *)
(***************************************************************************)
EXTENDS Integers, Sequences, FiniteSets, TLC

\* ---------------------------------------------------------------- bounds
NumTasks == 2            \* task ids 1..NumTasks (ids compare like the uuid strings)
MaxVMs == 4              \* sandboxes ever allocated (VM() constructor calls)
MaxBackendFailures == 1  \* backend calls that raise, over a run
MaxDirectCalls == 1      \* direct release_vm calls, over a run
MaxCancelCalls == 2      \* cancel_task calls whose return value is kept, over a run
MaxOverlap == 2          \* cancel_task calls for one id at their log await at once
MaxMarks == 2            \* mark_* calls on a Task record that no queue holds
MaxCancelled == 1        \* SpecCancel: cancel_task is called for the ids 1..MaxCancelled

\* ------------------------------------------------------- configuration
TargetSize == 2          \* settings.warm_pool_size
RefillThreshold == 1     \* settings.warm_pool_refill_threshold
MaxRestored == 1          \* tasks the store's file holds at startup
MaxConcurrent == 2       \* largest max_concurrent a TaskQueue is built with

Tasks == 1 .. NumTasks
VMs == 1 .. MaxVMs
NoVm == 0
NoTask == 0
\* the coroutines of the pool that are not pipelines
StartProc == NumTasks + 1   \* WarmPoolManager.start()
LoopProc == NumTasks + 2    \* the task running _refill_loop
StopProc == NumTasks + 3    \* WarmPoolManager.stop()
StatsProc == NumTasks + 4   \* a caller of WarmPoolManager.get_stats()
\* a direct caller of release_vm(t)
DirectProc(t) == NumTasks + 4 + t
FillProcs == {StartProc, LoopProc}
\* a gather result that is an exception, not a VM
Failed == 0

PriorityNames == {"critical", "high", "medium", "low"}
Terminal == {"completed", "failed", "cancelled"}

VARIABLES
  \* WarmPoolManager
  pool,        \* _pool: FIFO of ready sandboxes
  claimed,     \* _claimed: task id -> sandbox (NoVm: key absent)
  claimedKeys, \* the keys of _claimed in insertion order
  all_vms,     \* _all_vms: registry (set of sandbox ids)
  lock,        \* _lock: NoTask when free, else the holder (a task id or a process)
  lockq,       \* _lock._waiters: the coroutines waiting for the lock, FIFO
  wcancelled,  \* the waiters whose future is cancelled (fut.cancelled())
  filling,     \* _filling
  poolRunning, \* _running of the pool
  fpc,         \* position of start() and of the refill loop
  fneeded,     \* local variable needed of the fill each one is running
  fresults,    \* results of the gather of the fill each one is running
  loopCancel,  \* _refill_task.cancel() requested and not yet delivered
  stopPc,      \* position of WarmPoolManager.stop()
  stopList,    \* sandboxes stop() still has to destroy
  \* VM records and the backend
  nextVm,      \* number of VM records allocated
  vmState,     \* VM.state ("none": not allocated)
  vmTask,      \* VM.task_id
  destroyCalls,\* backend.destroy_vm invocations per sandbox
  failures,    \* backend calls that raised so far
  \* TaskQueue
  tasks,       \* _tasks: submitted task ids
  prio,        \* Task.priority
  status,      \* Task.status
  queue,       \* _queue: ids waiting in the PriorityQueue
  active,      \* _active, in insertion order
  queueRunning,\* _running of the queue
  lpc,         \* position of _process_loop
  got,         \* the entry wait_for's own task for Queue.get() has taken (NoTask: none)
  qstopPc,     \* position of TaskQueue.stop()
  max_concurrent, \* TaskQueue.max_concurrent
  innerGet,       \* asyncio.wait_for runs its awaitable in a task of its own
  callback,       \* what on_status_change and on_step_complete do when awaited
  storeWritable,  \* TaskStore: whether write_text on the store's path succeeds
  maxRepair,      \* AgentRunner.max_repair_iterations
  disk,        \* TaskStore: the status of each task in the file ("none": not in it)
  cancelCall,  \* the cancel_task(t) calls suspended in their log between cancel()
               \* and the status write, in call order: "sent" until the pipeline
               \* has taken the CancelledError of that cancel(), then "delivered"
  submitSeq,   \* order of the submit calls
  \* TaskPipeline.execute, one asyncio task per dispatched task
  pc,          \* position
  cancelPending, \* asyncio cancel requested and not yet delivered
  raising,     \* CancelledError is propagating out of the coroutine
  cvm,         \* local variable vm of the pool call in progress
  boundVm,     \* the sandbox claim_vm bound to the task (history)
  \* history of the registry, kept from a task's claim to the end of its release
  preReg,      \* _all_vms as claim_vm found it
  quiet,       \* no other operation has changed _all_vms since
  \* Task record fields written by the pipeline, and its notifications
  completed_at,     \* Task.completed_at: number of writes (0: None)
  duration_seconds, \* Task.duration_seconds: number of writes (0: None)
  error_message,    \* Task.error_message ("none": None)
  agentEnv,    \* what the sandbox and the engine do in the task's agent stage
  \* calls made on the pool and the queue from outside the pipelines
  directCalls, \* release_vm(t) calls made directly
  cancelRet,   \* the values the recorded cancel_task(t) calls returned, in order
  dpc,         \* position of the direct release_vm(t) call in progress
  dvm,         \* local variable vm of that call
  statsPc,     \* position of the get_stats() call in progress
  stats,       \* the WarmPoolStats get_stats() returned last
  \* one AgentRunner.run invocation
  rpc,         \* position of the run
  rsteps,      \* result.steps: the StepResults (step, success, error) in order
  riter,       \* result.iterations_used
  rsuccess,    \* result.success
  rerror,      \* result.error ("": empty)
  eng,         \* the engine of the runner: the calls it has received
  rnotify      \* where the run is inside _notify ("none": not in it)

poolVars == <<pool, claimed, claimedKeys, all_vms, lock, lockq, wcancelled, filling,
              poolRunning, fpc, fneeded, fresults, loopCancel, stopPc, stopList>>
vmVars == <<nextVm, vmState, vmTask, destroyCalls, failures>>
queueVars == <<tasks, prio, status, queue, active, queueRunning, lpc, got, qstopPc,
               cancelCall, submitSeq>>
pipeVars == <<pc, cancelPending, raising, cvm, boundVm>>
histVars == <<preReg, quiet>>
fieldVars == <<completed_at, duration_seconds, error_message, agentEnv>>
callVars == <<directCalls, cancelRet, dpc, dvm, statsPc, stats>>
confVars == <<max_concurrent, innerGet, callback, storeWritable, maxRepair, disk>>
runnerVars == <<rpc, rsteps, riter, rsuccess, rerror, eng, rnotify>>
vars == <<poolVars, vmVars, queueVars, pipeVars, confVars, histVars, fieldVars,
          callVars, runnerVars>>

\* ------------------------------------------------------------- helpers
Range(s) == {s[i] : i \in 1 .. Len(s)}

\* submit's priority table; priority.get(value, 2)
PriorityValue(p) ==
  CASE p = "critical" -> 0
    [] p = "high" -> 1
    [] p = "medium" -> 2
    [] p = "low" -> 3
    [] OTHER -> 2

\* a queue ordered by task id alone
EntryLessById(a, b) == a < b

\* the queue holds tuples (priority value, task id): heap order is tuple order
EntryLess(a, b) ==
  \/ PriorityValue(prio[a]) < PriorityValue(prio[b])
  \/ PriorityValue(prio[a]) = PriorityValue(prio[b]) /\ a < b

\* PriorityQueue.get(): the least entry
QueueGet(q) == CHOOSE t \in q : \A u \in q \ {t} : EntryLess(t, u)

\* a capacity test that is off by one
AtCapacityLate(n) == n > max_concurrent

\* len(self._active) >= self.max_concurrent
AtCapacity(n) == n >= max_concurrent

\* a claim that reads the head and leaves it in the deque
PoolRestPeek(p) == p

\* deque.popleft(): the element taken and the rest
PoolHead(p) == Head(p)
PoolRest(p) == Tail(p)

\* ------------------------------------------------------------ the lock
\* asyncio.Lock (locks.py of Python 3.11). acquire() takes the lock at once when
\* it is free and nobody waits or every waiter's future is cancelled; else the
\* caller joins _waiters. release() wakes the first waiter unless its future is
\* done already (a cancelled one stays first until its task runs). A waiter that
\* gets its CancelledError leaves _waiters and, the lock being free, wakes the
\* first one left. A woken waiter is the first of _waiters while the lock is
\* free.
AllCancelled(q) == \A i \in 1 .. Len(q) : q[i] \in wcancelled
LockIdle == lock = NoTask /\ AllCancelled(lockq)
Waiting(P) == P \in Range(lockq)
Woken(P) == lock = NoTask /\ lockq # <<>> /\ Head(lockq) = P /\ P \notin wcancelled
MayEnter(P) == IF Waiting(P) THEN Woken(P) ELSE LockIdle
Leave(P) == IF lockq # <<>> /\ Head(lockq) = P THEN Tail(lockq) ELSE lockq
Without(q, P) == SelectSeq(q, LAMBDA x : x # P)

\* Task.cancel() on a coroutine: the future it awaits is cancelled at once, so
\* a waiter of the lock that has not been woken counts as cancelled from then
\* on; one that was woken keeps its place until it runs
CancelWaiters(S) == wcancelled \cup {P \in S : Waiting(P) /\ ~Woken(P)}

\* ------------------------------------------------------------ backend
CanFail == failures < MaxBackendFailures

\* ------------------------------------------------- WarmPoolManager.start
\* a fill that creates one sandbox less than is missing
FillNeededShort == TargetSize - Len(pool) - 1

\* needed = self.target_size - len(self._pool)
FillNeeded == TargetSize - Len(pool)
\* a fill that does not look at the flag
FillSkipsNoFlag == FillNeeded <= 0

\* if self._filling: return / if needed <= 0: return
FillSkips == filling \/ FillNeeded <= 0
\* where a fill process goes when _fill_pool returns
FillReturn(P) == IF P = StartProc THEN "done" ELSE "check"

\* _fill_pool lines 393-399 with the lock just taken by P: return, or set
\* _filling and go on to the log await of line 402; f: the positions so far
FillEnter(f, P) ==
  /\ fpc' = [f EXCEPT ![P] = IF FillSkips THEN FillReturn(P) ELSE "fill_log"]
  /\ fneeded' = [fneeded EXCEPT ![P] = IF FillSkips THEN 0 ELSE FillNeeded]
  /\ filling' = (filling \/ ~FillSkips)

\* start() lines 292-293: _running = True, then the log await
PoolStart ==
  /\ fpc[StartProc] = "none"
  /\ poolRunning' = TRUE
  /\ fpc' = [fpc EXCEPT ![StartProc] = "start_log"]
  /\ UNCHANGED <<confVars, callVars, fieldVars, runnerVars, histVars,
                 pool, claimed, claimedKeys, all_vms, lock, lockq, wcancelled, filling,
                 fneeded, fresults, loopCancel, stopPc, stopList, vmVars, queueVars,
                 pipeVars>>

\* start() lines 294-296: the refill task is created (it runs once start() is
\* suspended again) and _fill_pool is entered, up to its first suspension
PoolStarted ==
  /\ fpc[StartProc] = "start_log"
  /\ IF LockIdle
       THEN /\ FillEnter([fpc EXCEPT ![LoopProc] = "check"], StartProc)
            /\ UNCHANGED lockq
       ELSE /\ fpc' = [fpc EXCEPT ![LoopProc] = "check", ![StartProc] = "begin"]
            /\ lockq' = Append(lockq, StartProc)
            /\ UNCHANGED <<fneeded, filling>>
  /\ UNCHANGED <<confVars, callVars, fieldVars, runnerVars, histVars,
                 pool, claimed, claimedKeys, all_vms, lock, wcancelled, poolRunning,
                 fresults, loopCancel, stopPc, stopList, vmVars, queueVars, pipeVars>>

\* _refill_loop, one iteration: read len(_pool) under the lock and call _fill_pool
\* when it is below the threshold; _fill_pool's own acquire succeeds at once
\* unless the release has just woken a waiter
RefillBelowThreshold(n) == n < RefillThreshold

RefillCheck ==
  /\ fpc[LoopProc] = "check"
  /\ ~loopCancel
  /\ poolRunning
  /\ MayEnter(LoopProc)
  /\ IF RefillBelowThreshold(Len(pool))
       THEN IF AllCancelled(Leave(LoopProc))
              THEN /\ FillEnter(fpc, LoopProc)
                   /\ lockq' = Leave(LoopProc)
              ELSE /\ fpc' = [fpc EXCEPT ![LoopProc] = "begin"]
                   /\ lockq' = Append(Leave(LoopProc), LoopProc)
                   /\ UNCHANGED <<fneeded, filling>>
       ELSE /\ lockq' = Leave(LoopProc)
            /\ UNCHANGED <<fpc, fneeded, filling>>
  /\ UNCHANGED <<confVars, callVars, fieldVars, runnerVars, histVars,
                 pool, claimed, claimedKeys, all_vms, lock, wcancelled, poolRunning,
                 fresults, loopCancel, stopPc, stopList, vmVars, queueVars, pipeVars>>

\* _fill_pool lines 393-399 once the waiting fill gets the lock
FillBegin(P) ==
  /\ fpc[P] = "begin"
  /\ P = LoopProc => ~loopCancel
  /\ Woken(P)
  /\ lockq' = Tail(lockq)
  /\ FillEnter(fpc, P)
  /\ UNCHANGED <<confVars, callVars, fieldVars, runnerVars, histVars,
                 pool, claimed, claimedKeys, all_vms, lock, wcancelled, poolRunning,
                 fresults, loopCancel, stopPc, stopList, vmVars, queueVars, pipeVars>>

\* a gather result that is not there yet: the call has not started
NotStarted == -1

\* _fill_pool lines 402-406: the log await returns and asyncio.gather wraps
\* needed calls of _create_and_warm_vm in tasks (return_exceptions=True); none
\* of them has run yet
FillLogged(P) ==
  /\ fpc[P] = "fill_log"
  /\ P = LoopProc => ~loopCancel
  /\ fresults' = [fresults EXCEPT ![P] = [i \in 1 .. fneeded[P] |-> NotStarted]]
  /\ fpc' = [fpc EXCEPT ![P] = "gather"]
  /\ UNCHANGED <<confVars, callVars, fieldVars, runnerVars, histVars,
                 pool, claimed, claimedKeys, all_vms, lock, lockq, wcancelled, filling,
                 poolRunning, fneeded, loopCancel, stopPc, stopList, vmVars, queueVars,
                 pipeVars>>

\* the calls of a gather: the first one that has not started (the loop runs
\* them in the order gather scheduled them), and the ones that are under way
FirstNotStarted(r) ==
  CHOOSE i \in 1 .. Len(r) : r[i] = NotStarted /\ \A j \in 1 .. (i - 1) : r[j] # NotStarted
UnderWay(r) == {i \in 1 .. Len(r) : r[i] # NotStarted /\ r[i] # Failed}

\* the gather is over once every call has returned its READY sandbox or raised
GatherPc(r, vs) ==
  IF \A i \in 1 .. Len(r) : r[i] = Failed \/ (r[i] # NotStarted /\ vs[r[i]] = "ready")
    THEN "gathered" ELSE "gather"

\* _create_and_warm_vm lines 421-426: a VM record is made (CREATING) and
\* backend.create_vm is awaited
FillChildStart(P) ==
  /\ fpc[P] = "gather"
  /\ P = LoopProc => ~loopCancel
  /\ NotStarted \in Range(fresults[P])
  /\ nextVm < MaxVMs
  /\ nextVm' = nextVm + 1
  /\ vmState' = [vmState EXCEPT ![nextVm + 1] = "creating"]
  /\ fresults' = [fresults EXCEPT ![P][FirstNotStarted(fresults[P])] = nextVm + 1]
  /\ UNCHANGED <<confVars, callVars, fieldVars, runnerVars, histVars,
                 pool, claimed, claimedKeys, all_vms, lock, lockq, wcancelled, filling,
                 poolRunning, fpc, fneeded, loopCancel, stopPc, stopList, vmTask,
                 destroyCalls, failures, queueVars, pipeVars>>

\* _create_and_warm_vm lines 426-428 for the call i of the gather: the backend
\* call it awaits (create_vm of a CREATING record, warm_vm of a WARMING one)
\* returns, or raises: the exception is the call's result and the record stays
\* as the failure found it
FillChild(P, i, from, to) ==
  /\ fpc[P] = "gather"
  /\ P = LoopProc => ~loopCancel
  /\ i \in UnderWay(fresults[P])
  /\ vmState[fresults[P][i]] = from
  /\ \/ /\ vmState' = [vmState EXCEPT ![fresults[P][i]] = to]
        /\ UNCHANGED <<fresults, failures>>
     \/ /\ CanFail
        /\ failures' = failures + 1
        /\ fresults' = [fresults EXCEPT ![P][i] = Failed]
        /\ UNCHANGED vmState
  /\ fpc' = [fpc EXCEPT ![P] = GatherPc(fresults'[P], vmState')]
  /\ UNCHANGED <<confVars, callVars, fieldVars, runnerVars, histVars,
                 pool, claimed, claimedKeys, all_vms, lock, lockq, wcancelled, filling,
                 poolRunning, fneeded, loopCancel, stopPc, stopList, nextVm, vmTask,
                 destroyCalls, queueVars, pipeVars>>

\* line 426: vm = await self.backend.create_vm(vm)
FillCreate(P, i) == FillChild(P, i, "creating", "warming")

\* line 427: vm = await self.backend.warm_vm(vm)
FillWarm(P, i) == FillChild(P, i, "warming", "ready")

\* the results before the first exception, and what follows that exception
RECURSIVE FirstFailed(_)
FirstFailed(r) ==
  IF r = <<>> THEN 0
  ELSE IF Head(r) = Failed THEN 1
  ELSE IF FirstFailed(Tail(r)) = 0 THEN 0 ELSE 1 + FirstFailed(Tail(r))

AppendedNow(r) == IF FirstFailed(r) = 0 THEN r ELSE SubSeq(r, 1, FirstFailed(r) - 1)
\* a fill that gives up at its first exception
LeftAfterNone(r) == <<>>

LeftAfter(r) == IF FirstFailed(r) = 0 THEN <<>> ELSE SubSeq(r, FirstFailed(r) + 1, Len(r))

\* a fill that appends its results twice
PoolAppendTwice(p, r) == p \o r \o r

\* self._pool.append(result)
PoolAppend(p, r) == p \o r

\* history: what a change of the registry to reg by task t (NoTask: by the pool)
\* means for the tasks that hold a claim
Disturbed(t, reg) == [u \in Tasks |-> quiet[u] /\ (u = t \/ reg = all_vms)]

\* _fill_pool lines 408-417: under the lock, append every VM of the results and add
\* it to the registry; an exception among them is logged with an await while the
\* lock is held. Then the finally block takes the lock again to clear _filling.
FillAppend(P) ==
  /\ \/ fpc[P] = "gathered" /\ MayEnter(P)
     \/ fpc[P] = "append_log" /\ lock = P
  /\ P = LoopProc => ~loopCancel
  /\ pool' = PoolAppend(pool, AppendedNow(fresults[P]))
  /\ all_vms' = all_vms \cup Range(AppendedNow(fresults[P]))
  /\ fresults' = [fresults EXCEPT ![P] = LeftAfter(fresults[P])]
  /\ quiet' = Disturbed(NoTask, all_vms')
  /\ UNCHANGED preReg
  /\ IF FirstFailed(fresults[P]) # 0
       THEN /\ lock' = P
            /\ lockq' = Leave(P)
            /\ fpc' = [fpc EXCEPT ![P] = "append_log"]
            /\ UNCHANGED filling
       ELSE /\ lock' = NoTask
            /\ IF AllCancelled(Leave(P))
                 THEN /\ filling' = FALSE
                      /\ fpc' = [fpc EXCEPT ![P] = FillReturn(P)]
                      /\ lockq' = Leave(P)
                 ELSE /\ fpc' = [fpc EXCEPT ![P] = "finally"]
                      /\ lockq' = Append(Leave(P), P)
                      /\ UNCHANGED filling
  /\ UNCHANGED <<confVars, callVars, fieldVars, runnerVars,
                 claimed, claimedKeys, wcancelled, poolRunning, fneeded, loopCancel,
                 stopPc, stopList, vmVars, queueVars, pipeVars>>

\* _fill_pool lines 415-417 once the waiting fill gets the lock
FillFinally(P) ==
  /\ fpc[P] \in {"finally", "finally_c"}
  /\ P = LoopProc => ~loopCancel
  /\ Woken(P)
  /\ lockq' = Tail(lockq)
  /\ filling' = FALSE
  /\ fpc' = [fpc EXCEPT ![P] = IF fpc[P] = "finally_c" THEN "dead" ELSE FillReturn(P)]
  /\ UNCHANGED <<confVars, callVars, fieldVars, runnerVars, histVars,
                 pool, claimed, claimedKeys, all_vms, lock, wcancelled, poolRunning,
                 fneeded, fresults, loopCancel, stopPc, stopList, vmVars, queueVars,
                 pipeVars>>

\* a fill process that found the lock taken joins the waiters
FillWaits(P) ==
  /\ fpc[P] \in {"check", "gathered"}
  /\ P = LoopProc => ~loopCancel /\ poolRunning
  /\ ~Waiting(P)
  /\ ~LockIdle
  /\ lockq' = Append(lockq, P)
  /\ UNCHANGED <<confVars, callVars, fieldVars, runnerVars, histVars,
                 pool, claimed, claimedKeys, all_vms, lock, wcancelled, filling,
                 poolRunning, fpc, fneeded, fresults, loopCancel, stopPc, stopList,
                 vmVars, queueVars, pipeVars>>

\* CancelledError delivered to the refill task (stop() cancelled it). In the loop's
\* own awaits it ends the loop; inside _fill_pool's try block (the log await, the
\* gather, whose unfinished calls are cancelled where they stand, the wait for
\* the lock, the log of an exception) the finally block still takes the lock to
\* clear _filling; inside that finally block's own wait for the lock it leaves
\* _filling set.
InFillTry == {"fill_log", "gather", "gathered", "append_log"}

RefillCancelled ==
  /\ loopCancel
  /\ fpc[LoopProc] \notin {"none", "dead"}
  /\ loopCancel' = FALSE
  /\ wcancelled' = wcancelled \ {LoopProc}
  /\ IF fpc[LoopProc] \in InFillTry
       THEN /\ lock' = IF fpc[LoopProc] = "append_log" THEN NoTask ELSE lock
            /\ fresults' = [fresults EXCEPT ![LoopProc] = <<>>]
            /\ IF lock' = NoTask /\ AllCancelled(Without(lockq, LoopProc))
                 THEN /\ filling' = FALSE
                      /\ fpc' = [fpc EXCEPT ![LoopProc] = "dead"]
                      /\ lockq' = Without(lockq, LoopProc)
                 ELSE /\ fpc' = [fpc EXCEPT ![LoopProc] = "finally_c"]
                      /\ lockq' = Append(Without(lockq, LoopProc), LoopProc)
                      /\ UNCHANGED filling
       ELSE /\ fpc' = [fpc EXCEPT ![LoopProc] = "dead"]
            /\ lockq' = Without(lockq, LoopProc)
            /\ UNCHANGED <<lock, filling, fresults>>
  /\ UNCHANGED <<confVars, callVars, fieldVars, runnerVars, histVars,
                 pool, claimed, claimedKeys, all_vms, poolRunning, fneeded, stopPc,
                 stopList, vmVars, queueVars, pipeVars>>

\* -------------------------------------------------- WarmPoolManager.stop
\* list(self._claimed.values()): a dict keeps its keys in insertion order
ClaimedValues == [i \in 1 .. Len(claimedKeys) |-> claimed[claimedKeys[i]]]

\* list(self._pool) + list(self._claimed.values())
StopSnapshot == pool \o ClaimedValues

\* stop() line 304 with the lock just taken: the snapshot of the sandboxes to
\* destroy, and the first destroy_vm awaited
StopEnter ==
  /\ stopList' = StopSnapshot
  /\ lock' = IF StopSnapshot = <<>> THEN NoTask ELSE StopProc
  /\ stopPc' = IF StopSnapshot = <<>> THEN "done" ELSE "destroy"

\* stop() lines 300-305: clear _running, cancel the refill task, reach the lock.
\* app.py's lifespan calls it after the queue has stopped.
PoolStop ==
  /\ stopPc = "idle"
  /\ poolRunning
  /\ qstopPc = "done"
  /\ poolRunning' = FALSE
  /\ loopCancel' = (fpc[LoopProc] \notin {"none", "dead"})
  /\ wcancelled' = CancelWaiters({LoopProc})
  /\ IF lock = NoTask /\ \A i \in 1 .. Len(lockq) : lockq[i] \in wcancelled'
       THEN /\ StopEnter
            /\ UNCHANGED lockq
       ELSE /\ lockq' = Append(lockq, StopProc)
            /\ stopPc' = "wait"
            /\ UNCHANGED <<lock, stopList>>
  /\ UNCHANGED <<confVars, callVars, fieldVars, runnerVars, histVars,
                 pool, claimed, claimedKeys, all_vms, filling, fpc, fneeded, fresults,
                 vmVars, queueVars, pipeVars>>

PoolStopLocked ==
  /\ stopPc = "wait"
  /\ Woken(StopProc)
  /\ lockq' = Tail(lockq)
  /\ StopEnter
  /\ UNCHANGED <<confVars, callVars, fieldVars, runnerVars, histVars,
                 pool, claimed, claimedKeys, all_vms, wcancelled, filling, poolRunning,
                 fpc, fneeded, fresults, loopCancel, vmVars, queueVars, pipeVars>>

\* a stop() that gives up at the first destroy_vm that raises
StopRestAbort(l, ok) == IF ok THEN Tail(l) ELSE <<>>

\* stop() lines 305-309, the for statement: the next sandbox, whether
\* destroy_vm returned or raised
StopRest(l, ok) == Tail(l)

\* the for statement of line 305 going on with the list l: the next
\* destroy_vm, or the end of the `async with` block
StopNext(l) ==
  /\ stopList' = l
  /\ lock' = IF l = <<>> THEN NoTask ELSE StopProc
  /\ stopPc' = IF l = <<>> THEN "done" ELSE "destroy"

\* stop() lines 306-309: backend.destroy_vm of the next sandbox of the snapshot
\* returns, the lock held, or raises, and the warning is awaited, the lock
\* still held
PoolStopDestroy ==
  /\ stopPc = "destroy"
  /\ stopList # <<>>
  /\ destroyCalls' = [destroyCalls EXCEPT ![Head(stopList)] = @ + 1]
  /\ \/ /\ vmState' = [vmState EXCEPT ![Head(stopList)] = "destroyed"]
        /\ StopNext(StopRest(stopList, TRUE))
        /\ UNCHANGED failures
     \/ /\ CanFail
        /\ failures' = failures + 1
        /\ stopPc' = "destroy_log"
        /\ UNCHANGED <<vmState, stopList, lock>>
  /\ UNCHANGED <<confVars, callVars, fieldVars, runnerVars, histVars,
                 pool, claimed, claimedKeys, all_vms, lockq, wcancelled, filling,
                 poolRunning, fpc, fneeded, fresults, loopCancel, nextVm, vmTask,
                 queueVars, pipeVars>>

\* stop() line 309: the warning has been logged and the loop goes on
PoolStopLogged ==
  /\ stopPc = "destroy_log"
  /\ StopNext(StopRest(stopList, FALSE))
  /\ UNCHANGED <<confVars, callVars, fieldVars, runnerVars, histVars,
                 pool, claimed, claimedKeys, all_vms, lockq, wcancelled, filling,
                 poolRunning, fpc, fneeded, fresults, loopCancel, vmVars, queueVars,
                 pipeVars>>

\* ------------------------------------------- WarmPoolManager.get_stats
\* the WarmPoolStats of lines 377-389 (the backend, the target size and the
\* claim times left out)
PoolStats ==
  [total_vms |-> Len(pool) + Len(claimedKeys),
   ready_vms |-> Len(pool),
   claimed_vms |-> Len(claimedKeys),
   creating_vms |-> Cardinality({v \in all_vms : vmState[v] = "creating"}),
   error_vms |-> Cardinality({v \in all_vms : vmState[v] = "error"})]

\* get_stats() awaited by a caller: line 376 takes the lock or joins the
\* waiters; nothing is awaited while the lock is held
GetStats ==
  /\ statsPc = "idle"
  /\ IF LockIdle
       THEN stats' = PoolStats /\ UNCHANGED <<lockq, statsPc>>
       ELSE lockq' = Append(lockq, StatsProc) /\ statsPc' = "wait" /\ UNCHANGED stats
  /\ UNCHANGED <<confVars, directCalls, cancelRet, dpc, dvm, fieldVars, runnerVars,
                 histVars, pool, claimed, claimedKeys, all_vms, lock, wcancelled,
                 filling, poolRunning, fpc, fneeded, fresults, loopCancel, stopPc,
                 stopList, vmVars, queueVars, pipeVars>>

GetStatsLocked ==
  /\ statsPc = "wait"
  /\ Woken(StatsProc)
  /\ lockq' = Tail(lockq)
  /\ stats' = PoolStats
  /\ statsPc' = "idle"
  /\ UNCHANGED <<confVars, directCalls, cancelRet, dpc, dvm, fieldVars, runnerVars,
                 histVars, pool, claimed, claimedKeys, all_vms, lock, wcancelled,
                 filling, poolRunning, fpc, fneeded, fresults, loopCancel, stopPc,
                 stopList, vmVars, queueVars, pipeVars>>

\* ------------------------------------------------------ the Task record
\* Task.mark_failed(error): status, error_message, completed_at and
\* duration_seconds are written together
MarkFailed(t, msg) ==
  /\ status' = [status EXCEPT ![t] = "failed"]
  /\ error_message' = [error_message EXCEPT ![t] = msg]
  /\ completed_at' = [completed_at EXCEPT ![t] = @ + 1]
  /\ duration_seconds' = [duration_seconds EXCEPT ![t] = @ + 1]

\* Task.mark_completed(pr_url, pr_number) (task.py:151-158): status,
\* completed_at and duration_seconds are written together (pr_url and
\* pr_number are not tracked); the error message is left alone
MarkCompleted(t) ==
  /\ status' = [status EXCEPT ![t] = "completed"]
  /\ completed_at' = [completed_at EXCEPT ![t] = @ + 1]
  /\ duration_seconds' = [duration_seconds EXCEPT ![t] = @ + 1]
  /\ UNCHANGED error_message

\* Task.mark_review_completed(review_output) (task.py:160-166): the same
\* fields (review_output is not tracked)
MarkReviewCompleted(t) ==
  /\ status' = [status EXCEPT ![t] = "completed"]
  /\ completed_at' = [completed_at EXCEPT ![t] = @ + 1]
  /\ duration_seconds' = [duration_seconds EXCEPT ![t] = @ + 1]
  /\ UNCHANGED error_message

\* the methods of a Task called on a record that no queue holds, as
\* tests/test_models.py does; the pipelines of this code never get to
\* mark_completed or mark_review_completed (RunAgent)
MarkKinds == {"completed", "review_completed", "failed"}

TaskMarked(t, k) ==
  /\ t \notin tasks
  /\ completed_at[t] < MaxMarks
  /\ CASE k = "completed" -> MarkCompleted(t)
       [] k = "review_completed" -> MarkReviewCompleted(t)
       [] k = "failed" -> MarkFailed(t, "exception")
  /\ UNCHANGED <<confVars, callVars, agentEnv, runnerVars, histVars,
                 poolVars, vmVars, tasks, prio, queue, active, queueRunning, lpc, got,
                 qstopPc, cancelCall, submitSeq, pipeVars>>

\* the fields mark_failed writes besides the status
Stamps == <<error_message, completed_at, duration_seconds>>

CallbackKinds == {"none", "returns", "raises"}

\* an _update_status that lets the exception of the callback through
CallbackPropagates(cb) == cb = "raises"

\* _update_status lines 433-439: on_status_change is awaited inside
\* try / except Exception, which logs the exception and goes on
CallbackEscapes(cb) == FALSE

\* TaskPipeline._update_status: the status is written, then on_status_change is
\* awaited with the task (an exception of the callback is logged and dropped);
\* at: the position of the pipeline while it is suspended in the callback
InCallback == {"claim", "run_cb"}

UpdateStatus(t, s, at) ==
  /\ status' = [status EXCEPT ![t] = s]
  /\ pc' = [pc EXCEPT ![t] = at]

\* str(e) of an exception caught by `except Exception` (pipeline.py:401-402)
ErrException == "exception"

\* ------------------------------------------- claim_vm, inside a pipeline
\* vm.claim(task_id); self._claimed[task_id] = vm; self._all_vms[vm.id] = vm
Register(t, v) ==
  /\ vmState' = [vmState EXCEPT ![v] = "claimed"]
  /\ vmTask' = [vmTask EXCEPT ![v] = t]
  /\ claimed' = [claimed EXCEPT ![t] = v]
  /\ claimedKeys' = IF t \in Range(claimedKeys) THEN claimedKeys
                    ELSE Append(claimedKeys, t)
  /\ all_vms' = all_vms \cup {v}
  /\ boundVm' = [boundVm EXCEPT ![t] = v]
  /\ cvm' = [cvm EXCEPT ![t] = v]
  /\ preReg' = [preReg EXCEPT ![t] = all_vms]
  /\ quiet' = [Disturbed(t, all_vms') EXCEPT ![t] = TRUE]

\* a claim that creates on demand whenever the pool is below its target
PoolEmptyBelowTarget(p) == Len(p) < TargetSize

\* if not self._pool
PoolEmpty(p) == p = <<>>

\* claim_vm lines 320-336 with the lock just taken; q: the waiters left.
\* Pool hit: popleft and register, no suspension. Pool empty: the warning of
\* line 323 is awaited with the lock held and no record made yet.
ClaimEnter(t, q) ==
  /\ lockq' = q
  /\ IF PoolEmpty(pool)
       THEN /\ nextVm < MaxVMs
            /\ lock' = t
            /\ pc' = [pc EXCEPT ![t] = "c_log"]
            /\ UNCHANGED <<pool, claimed, claimedKeys, all_vms, nextVm, vmState,
                           vmTask, cvm, boundVm, histVars>>
       ELSE /\ pool' = PoolRest(pool)
            /\ Register(t, PoolHead(pool))
            /\ pc' = [pc EXCEPT ![t] = "claimed"]
            /\ UNCHANGED <<lock, nextVm>>

\* claim_vm lines 324-329: the warning has been logged; a VM record is made
\* (CREATING) and backend.create_vm is awaited, the lock held
ClaimLogged(t) ==
  /\ pc[t] = "c_log"
  /\ ~cancelPending[t]
  /\ nextVm < MaxVMs
  /\ nextVm' = nextVm + 1
  /\ vmState' = [vmState EXCEPT ![nextVm + 1] = "creating"]
  /\ cvm' = [cvm EXCEPT ![t] = nextVm + 1]
  /\ pc' = [pc EXCEPT ![t] = "c_create"]
  /\ UNCHANGED <<confVars, callVars, fieldVars, runnerVars, histVars,
                 poolVars, vmTask, destroyCalls, failures, queueVars, cancelPending,
                 raising, boundVm>>

\* _execute_code line 313: _update_status(CLAIMING_VM), suspended in the callback
PipelineStart(t) ==
  /\ pc[t] = "new"
  /\ ~cancelPending[t]
  /\ UpdateStatus(t, "claiming_vm", "claim")
  /\ UNCHANGED <<Stamps, agentEnv>>
  /\ UNCHANGED <<confVars, callVars, runnerVars, histVars,
                 poolVars, vmVars, tasks, prio, queue, active, queueRunning, lpc, got,
                 qstopPc, cancelCall, submitSeq, cancelPending, raising, cvm, boundVm>>

\* _execute_code line 316: the call of claim_vm reaches the lock
ClaimVm(t) ==
  /\ pc[t] = "claim"
  /\ ~cancelPending[t]
  /\ IF CallbackEscapes(callback)
       THEN /\ MarkFailed(t, ErrException)
            /\ pc' = [pc EXCEPT ![t] = "h_log"]
            /\ UNCHANGED <<pool, claimed, claimedKeys, all_vms, lock, lockq, nextVm, vmState, vmTask,
                           cvm, boundVm, histVars>>
       ELSE /\ IF LockIdle
                 THEN ClaimEnter(t, lockq)
                 ELSE /\ lockq' = Append(lockq, t)
                      /\ pc' = [pc EXCEPT ![t] = "claim_wait"]
                      /\ UNCHANGED <<pool, claimed, claimedKeys, all_vms, lock, nextVm, vmState,
                                     vmTask, cvm, boundVm, histVars>>
            /\ UNCHANGED <<status, Stamps>>
  /\ UNCHANGED <<confVars, callVars, agentEnv, runnerVars,
                 filling, poolRunning, fpc, fneeded, fresults, loopCancel, wcancelled, stopPc,
                 stopList, destroyCalls, failures, tasks, prio, queue, active,
                 queueRunning, lpc, got, qstopPc, cancelCall, submitSeq, cancelPending,
                 raising>>

ClaimVmLocked(t) ==
  /\ pc[t] = "claim_wait"
  /\ ~cancelPending[t]
  /\ Woken(t)
  /\ ClaimEnter(t, Tail(lockq))
  /\ UNCHANGED <<confVars, callVars, fieldVars, runnerVars,
                 filling, poolRunning, fpc, fneeded, fresults, loopCancel, wcancelled, stopPc,
                 stopList, destroyCalls, failures, queueVars, cancelPending, raising>>

\* claim_vm line 329: create_vm returns (the record is WARMING), or raises: the
\* lock is released and _execute_code's except Exception marks the task failed
ClaimCreate(t) ==
  /\ pc[t] = "c_create"
  /\ ~cancelPending[t]
  /\ \/ /\ vmState' = [vmState EXCEPT ![cvm[t]] = "warming"]
        /\ pc' = [pc EXCEPT ![t] = "c_warm"]
        /\ UNCHANGED <<lock, failures, status, Stamps>>
     \/ /\ CanFail
        /\ failures' = failures + 1
        /\ lock' = NoTask
        /\ MarkFailed(t, ErrException)
        /\ pc' = [pc EXCEPT ![t] = "h_log"]
        /\ UNCHANGED vmState
  /\ UNCHANGED agentEnv
  /\ UNCHANGED <<confVars, callVars, runnerVars, histVars,
                 pool, claimed, claimedKeys, all_vms, lockq, filling, poolRunning, fpc, fneeded,
                 fresults, loopCancel, wcancelled, stopPc, stopList, nextVm, vmTask, destroyCalls,
                 tasks, prio, queue, active, queueRunning, lpc, got, qstopPc, cancelCall,
                 submitSeq, cancelPending, raising, cvm, boundVm>>

\* claim_vm line 330, `vm = await self.backend.warm_vm(vm)`, the lock held:
\*  - DockerBackend.warm_vm (lines 157-168, called without repo_url) writes
\*    READY and awaits its log; the claim is suspended there, the sandbox
\*    READY and in neither _claimed nor _all_vms;
\*  - a driver whose warm_vm awaits nothing after the write (the backend of
\*    tests/conftest.py:27-30) returns in the same step and lines 334-336
\*    register the sandbox and release the lock;
\*  - or warm_vm raises: the lock is released and the task is marked failed
ClaimWarm(t) ==
  /\ pc[t] = "c_warm"
  /\ ~cancelPending[t]
  /\ \/ /\ vmState' = [vmState EXCEPT ![cvm[t]] = "ready"]
        /\ pc' = [pc EXCEPT ![t] = "c_ready"]
        /\ UNCHANGED <<lock, failures, status, Stamps, claimed, claimedKeys, all_vms,
                       vmTask, cvm, boundVm, histVars>>
     \/ /\ lock' = NoTask
        /\ Register(t, cvm[t])
        /\ pc' = [pc EXCEPT ![t] = "claimed"]
        /\ UNCHANGED <<failures, status, Stamps>>
     \/ /\ CanFail
        /\ lock' = NoTask
        /\ failures' = failures + 1
        /\ MarkFailed(t, ErrException)
        /\ pc' = [pc EXCEPT ![t] = "h_log"]
        /\ UNCHANGED <<claimed, claimedKeys, all_vms, vmState, vmTask, cvm, boundVm, histVars>>
  /\ UNCHANGED agentEnv
  /\ UNCHANGED <<confVars, callVars, runnerVars,
                 pool, lockq, filling, poolRunning, fpc, fneeded, fresults, loopCancel, wcancelled,
                 stopPc, stopList, nextVm, destroyCalls, tasks, prio, queue, active,
                 queueRunning, lpc, got, qstopPc, cancelCall, submitSeq, cancelPending,
                 raising>>

\* claim_vm lines 330-336 once the log await of warm_vm has returned: vm.claim,
\* the sandbox is registered and the lock released
ClaimWarmed(t) ==
  /\ pc[t] = "c_ready"
  /\ ~cancelPending[t]
  /\ lock' = NoTask
  /\ Register(t, cvm[t])
  /\ pc' = [pc EXCEPT ![t] = "claimed"]
  /\ UNCHANGED <<confVars, callVars, fieldVars, runnerVars,
                 pool, lockq, filling, poolRunning, fpc, fneeded, fresults, loopCancel,
                 wcancelled, stopPc, stopList, nextVm, destroyCalls, failures, queueVars,
                 cancelPending, raising>>

\* ------------------------------------------------- the rest of the pipeline
\* _execute_code lines 317-338: clone url and working branch from the provider
\* (create_working_branch's exceptions are swallowed, get_clone_url's are not),
\* then _update_status(RUNNING), suspended in the callback.
\* e: what the claimed sandbox and the engine will do when the agent stage
\* calls them (the lint and test commands fail every time, the engine never
\* answers, every step succeeds, or, for a peer-review task (_execute_peer_review
\* lines 220-279 has the same stages), the diff of the two branches is empty)
AgentEnvs == {"passes", "gate_fails", "hangs", "empty_diff"}

AfterClaim(t, e) ==
  /\ pc[t] = "claimed"
  /\ ~cancelPending[t]
  /\ \/ /\ UpdateStatus(t, "running", "run_cb")
        /\ agentEnv' = [agentEnv EXCEPT ![t] = e]
        /\ UNCHANGED Stamps
     \/ /\ MarkFailed(t, ErrException)
        /\ pc' = [pc EXCEPT ![t] = "h_log"]
        /\ UNCHANGED agentEnv
  /\ UNCHANGED <<confVars, callVars, runnerVars, histVars,
                 poolVars, vmVars, tasks, prio, queue, active, queueRunning, lpc, got,
                 qstopPc, cancelCall, submitSeq, cancelPending, raising, cvm, boundVm>>

\* _execute_code lines 341-358 and 401-403. create_engine raises ValueError for
\* the configured default "opencode" (engine.py:59-69, config.py:48), and
\* runner.run(..., clone_creds=...) raises TypeError for the engines it knows
\* (AgentRunner.run takes no clone_creds, runner.py:345): the agent never runs,
\* except Exception marks the task failed with str(e) and awaits the logger.
\* The call raises before the sandbox or the engine is consulted, whatever
\* agentEnv says they would do; the stage is over and agentEnv is forgotten.
RunAgent(t) ==
  /\ pc[t] = "run_cb"
  /\ ~cancelPending[t]
  /\ MarkFailed(t, ErrException)
  /\ pc' = [pc EXCEPT ![t] = "h_log"]
  /\ agentEnv' = [agentEnv EXCEPT ![t] = "none"]
  /\ UNCHANGED <<confVars, callVars, runnerVars, histVars,
                 poolVars, vmVars, tasks, prio, queue, active, queueRunning, lpc, got,
                 qstopPc, cancelCall, submitSeq, cancelPending, raising, cvm, boundVm>>

\* a release that leaves the sandbox in the registry
UnregisterKeep(reg, v) == reg

\* self._all_vms.pop(vm.id, None)
Unregister(reg, v) == reg \ {v}

\* a release that finds again the sandbox the task held last
ReleaseTargetStale(t) == IF claimed[t] # NoVm THEN claimed[t] ELSE boundVm[t]

\* vm = self._claimed.pop(task_id, None)
ReleaseTarget(t) == claimed[t]

\* release_vm lines 352-360 once the lock is taken: the sandbox leaves
\* _claimed, vm.release() makes it CLEANING and backend.destroy_vm is called
\* (outside the lock); nothing bound: nothing happens
ReleasePop(t) ==
  IF ReleaseTarget(t) = NoVm
    THEN UNCHANGED <<claimed, claimedKeys, vmState, vmTask, destroyCalls>>
    ELSE /\ claimed' = [claimed EXCEPT ![t] = NoVm]
         /\ claimedKeys' = Without(claimedKeys, t)
         /\ vmState' = [vmState EXCEPT ![ReleaseTarget(t)] = "cleaning"]
         /\ vmTask' = [vmTask EXCEPT ![ReleaseTarget(t)] = NoTask]
         /\ destroyCalls' = [destroyCalls EXCEPT ![ReleaseTarget(t)] = @ + 1]

\* release_vm called by the pipeline of t, with the lock just taken; q: the
\* waiters left. Nothing bound: release_vm returns and the pipeline ends. Else
\* destroy_vm is awaited.
ReleaseEnter(t, q) ==
  /\ lockq' = q
  /\ ReleasePop(t)
  /\ pc' = [pc EXCEPT ![t] = IF ReleaseTarget(t) = NoVm THEN "done" ELSE "r_destroy"]
  /\ cvm' = [cvm EXCEPT ![t] = ReleaseTarget(t)]

\* the finally block calls release_vm, which reaches the lock
ReleaseCall(t) ==
  IF LockIdle
    THEN ReleaseEnter(t, lockq)
    ELSE /\ lockq' = Append(lockq, t)
         /\ pc' = [pc EXCEPT ![t] = "release"]
         /\ UNCHANGED <<claimed, claimedKeys, vmState, vmTask, destroyCalls, cvm>>

\* _execute_code lines 405-410 after the handler's log await
ReleaseVm(t) ==
  /\ pc[t] = "h_log"
  /\ ~cancelPending[t]
  /\ ReleaseCall(t)
  /\ UNCHANGED <<confVars, callVars, fieldVars, runnerVars, histVars,
                 pool, all_vms, lock, filling, poolRunning, fpc, fneeded, fresults,
                 loopCancel, wcancelled, stopPc, stopList, nextVm, failures, queueVars,
                 cancelPending, raising, boundVm>>

ReleaseVmLocked(t) ==
  /\ pc[t] = "release"
  /\ ~cancelPending[t]
  /\ Woken(t)
  /\ ReleaseEnter(t, Tail(lockq))
  /\ UNCHANGED <<confVars, callVars, fieldVars, runnerVars, histVars,
                 pool, all_vms, lock, filling, poolRunning, fpc, fneeded, fresults,
                 loopCancel, wcancelled, stopPc, stopList, nextVm, failures, queueVars,
                 cancelPending, raising, boundVm>>

\* release_vm(t) awaited by a caller of its own (the tests do; nothing in the
\* code asks for a pipeline of t, running or not), with the lock just taken
DirectEnter(t, q) ==
  /\ lockq' = q
  /\ ReleasePop(t)
  /\ dpc' = [dpc EXCEPT ![t] = IF ReleaseTarget(t) = NoVm THEN "idle" ELSE "r_destroy"]
  /\ dvm' = [dvm EXCEPT ![t] = ReleaseTarget(t)]

\* the direct calls made so far
RECURSIVE CallsMade(_, _)
CallsMade(f, S) ==
  IF S = {} THEN 0
  ELSE LET x == CHOOSE y \in S : TRUE IN f[x] + CallsMade(f, S \ {x})

\* the call reaches the lock of line 352
ReleaseDirect(t) ==
  /\ CallsMade(directCalls, Tasks) < MaxDirectCalls
  /\ dpc[t] = "idle"
  /\ directCalls' = [directCalls EXCEPT ![t] = @ + 1]
  /\ IF LockIdle
       THEN DirectEnter(t, lockq)
       ELSE /\ lockq' = Append(lockq, DirectProc(t))
            /\ dpc' = [dpc EXCEPT ![t] = "release"]
            /\ UNCHANGED <<claimed, claimedKeys, vmState, vmTask, destroyCalls, dvm>>
  /\ UNCHANGED <<confVars, cancelRet, statsPc, stats, fieldVars, runnerVars, histVars,
                 pool, all_vms, lock, wcancelled, filling, poolRunning, fpc, fneeded,
                 fresults, loopCancel, stopPc, stopList, nextVm, failures, queueVars,
                 pipeVars>>

ReleaseDirectLocked(t) ==
  /\ dpc[t] = "release"
  /\ Woken(DirectProc(t))
  /\ DirectEnter(t, Tail(lockq))
  /\ UNCHANGED <<confVars, directCalls, cancelRet, statsPc, stats, fieldVars,
                 runnerVars, histVars, pool, all_vms, lock, wcancelled, filling,
                 poolRunning, fpc, fneeded, fresults, loopCancel, stopPc, stopList,
                 nextVm, failures, queueVars, pipeVars>>

\* lines 360-366 of the direct call: destroy_vm returns and the second
\* critical section is reached, or destroy_vm raises to the caller
ReleaseDirectDestroyed(t) ==
  /\ dpc[t] = "r_destroy"
  /\ \/ /\ vmState' = [vmState EXCEPT ![dvm[t]] = "destroyed"]
        /\ IF LockIdle
             THEN /\ all_vms' = Unregister(all_vms, dvm[t])
                  /\ quiet' = Disturbed(NoTask, all_vms')
                  /\ dpc' = [dpc EXCEPT ![t] = "r_log"]
                  /\ UNCHANGED lockq
             ELSE /\ lockq' = Append(lockq, DirectProc(t))
                  /\ dpc' = [dpc EXCEPT ![t] = "r_lock2"]
                  /\ UNCHANGED <<all_vms, quiet>>
        /\ UNCHANGED <<failures, dvm>>
     \/ /\ CanFail
        /\ failures' = failures + 1
        /\ dpc' = [dpc EXCEPT ![t] = "idle"]
        /\ dvm' = [dvm EXCEPT ![t] = NoVm]
        /\ UNCHANGED <<vmState, all_vms, lockq, quiet>>
  /\ UNCHANGED <<confVars, directCalls, cancelRet, statsPc, stats, fieldVars,
                 runnerVars, preReg, pool, claimed, claimedKeys, lock, wcancelled,
                 filling, poolRunning, fpc, fneeded, fresults, loopCancel, stopPc,
                 stopList, nextVm, vmTask, destroyCalls, queueVars, pipeVars>>

ReleaseDirectUnregister(t) ==
  /\ dpc[t] = "r_lock2"
  /\ Woken(DirectProc(t))
  /\ lockq' = Tail(lockq)
  /\ all_vms' = Unregister(all_vms, dvm[t])
  /\ quiet' = Disturbed(NoTask, all_vms')
  /\ dpc' = [dpc EXCEPT ![t] = "r_log"]
  /\ UNCHANGED <<confVars, directCalls, cancelRet, dvm, statsPc, stats, fieldVars,
                 runnerVars, preReg, pool, claimed, claimedKeys, lock, wcancelled,
                 filling, poolRunning, fpc, fneeded, fresults, loopCancel, stopPc,
                 stopList, vmVars, queueVars, pipeVars>>

\* the last log await of the direct call returns, and the call
ReleaseDirectReturn(t) ==
  /\ dpc[t] = "r_log"
  /\ dpc' = [dpc EXCEPT ![t] = "idle"]
  /\ dvm' = [dvm EXCEPT ![t] = NoVm]
  /\ UNCHANGED <<confVars, directCalls, cancelRet, statsPc, stats, fieldVars,
                 runnerVars, histVars, poolVars, vmVars, queueVars, pipeVars>>

\* release_vm lines 360-366: destroy_vm returns (DESTROYED) and the second
\* critical section removes the sandbox from the registry; or destroy_vm raises,
\* release_vm raises with it and the finally block's except Exception logs it
ReleaseDestroyed(t) ==
  /\ pc[t] = "r_destroy"
  /\ ~cancelPending[t]
  /\ \/ /\ vmState' = [vmState EXCEPT ![cvm[t]] = "destroyed"]
        /\ IF LockIdle
             THEN /\ all_vms' = Unregister(all_vms, cvm[t])
                  /\ quiet' = Disturbed(t, all_vms')
                  /\ pc' = [pc EXCEPT ![t] = "r_log"]
                  /\ UNCHANGED lockq
             ELSE /\ lockq' = Append(lockq, t)
                  /\ pc' = [pc EXCEPT ![t] = "r_lock2"]
                  /\ UNCHANGED <<all_vms, quiet>>
        /\ UNCHANGED failures
     \/ /\ CanFail
        /\ failures' = failures + 1
        /\ pc' = [pc EXCEPT ![t] = "r_log"]
        /\ UNCHANGED <<vmState, all_vms, lockq, quiet>>
  /\ UNCHANGED preReg
  /\ UNCHANGED <<confVars, callVars, fieldVars, runnerVars,
                 pool, claimed, claimedKeys, lock, filling, poolRunning, fpc, fneeded, fresults,
                 loopCancel, wcancelled, stopPc, stopList, nextVm, vmTask, destroyCalls, queueVars,
                 cancelPending, raising, cvm, boundVm>>

ReleaseUnregister(t) ==
  /\ pc[t] = "r_lock2"
  /\ ~cancelPending[t]
  /\ Woken(t)
  /\ lockq' = Tail(lockq)
  /\ all_vms' = Unregister(all_vms, cvm[t])
  /\ quiet' = Disturbed(t, all_vms')
  /\ pc' = [pc EXCEPT ![t] = "r_log"]
  /\ UNCHANGED <<confVars, callVars, fieldVars, runnerVars, preReg,
                 pool, claimed, claimedKeys, lock, filling, poolRunning, fpc, fneeded, fresults,
                 loopCancel, wcancelled, stopPc, stopList, vmVars, queueVars, cancelPending,
                 raising, cvm, boundVm>>

\* history: the task's pipeline has ended
Forget(t) ==
  /\ preReg' = [preReg EXCEPT ![t] = {}]
  /\ quiet' = [quiet EXCEPT ![t] = FALSE]

\* release_vm's last log await returns, then the pipeline: `return task`, or the
\* CancelledError that was propagating
PipelineReturn(t) ==
  /\ pc[t] = "r_log"
  /\ ~cancelPending[t]
  /\ pc' = [pc EXCEPT ![t] = "done"]
  /\ cvm' = [cvm EXCEPT ![t] = NoVm]
  /\ Forget(t)
  /\ UNCHANGED <<confVars, callVars, fieldVars, runnerVars,
                 poolVars, vmVars, queueVars, cancelPending, raising, boundVm>>

\* CancelledError delivered to the pipeline at its suspension point.
\*  - before its first step: the coroutine never runs;
\*  - in the try block (lines 311-391): the lock, if held, is released and
\*    `except asyncio.CancelledError` sets CANCELLED and awaits the logger;
\*  - in an except handler's await: it propagates, and the finally block runs;
\*  - inside release_vm (the finally block): `except Exception` does not catch
\*    it, release_vm is abandoned where it stands and the coroutine ends.
InTry ==
  {"claim", "claim_wait", "c_log", "c_create", "c_warm", "c_ready", "claimed", "run_cb"}
InRelease == {"release", "r_destroy", "r_lock2", "r_log"}

DeliverCancel(t) ==
  /\ cancelPending[t]
  /\ pc[t] \in {"new", "h_log"} \cup InTry \cup InRelease
  /\ cancelPending' = [cancelPending EXCEPT ![t] = FALSE]
  /\ cancelCall' = [cancelCall EXCEPT ![t] = [i \in 1 .. Len(@) |-> "delivered"]]
  /\ wcancelled' = wcancelled \ {t}
  /\ agentEnv' = [agentEnv EXCEPT ![t] = "none"]
  /\ \/ /\ pc[t] = "new"
        /\ pc' = [pc EXCEPT ![t] = "done"]
        /\ raising' = [raising EXCEPT ![t] = TRUE]
        /\ UNCHANGED <<lock, lockq, status, claimed, claimedKeys, vmState, vmTask, destroyCalls, cvm,
                       histVars>>
     \/ /\ pc[t] \in InTry
        /\ lock' = IF lock = t THEN NoTask ELSE lock
        /\ lockq' = Without(lockq, t)
        /\ status' = [status EXCEPT ![t] = "cancelled"]
        /\ pc' = [pc EXCEPT ![t] = "h_log"]
        /\ UNCHANGED <<raising, claimed, claimedKeys, vmState, vmTask, destroyCalls, cvm, histVars>>
     \/ /\ pc[t] = "h_log"
        /\ raising' = [raising EXCEPT ![t] = TRUE]
        /\ ReleaseCall(t)
        /\ UNCHANGED <<lock, status, histVars>>
     \/ /\ pc[t] \in InRelease
        /\ lockq' = Without(lockq, t)
        /\ pc' = [pc EXCEPT ![t] = "done"]
        /\ raising' = [raising EXCEPT ![t] = TRUE]
        /\ cvm' = [cvm EXCEPT ![t] = NoVm]
        /\ Forget(t)
        /\ UNCHANGED <<lock, status, claimed, claimedKeys, vmState, vmTask, destroyCalls>>
  /\ UNCHANGED <<confVars, callVars, Stamps, runnerVars,
                 pool, all_vms, filling, poolRunning, fpc, fneeded, fresults,
                 loopCancel, stopPc, stopList, nextVm, failures, tasks, prio, queue,
                 active, queueRunning, lpc, got, qstopPc, submitSeq, boundVm>>

\* the runner built by _execute_code (pipeline.py:351; runner.py:108)
max_repair_iterations == 5

\* the limits a runner is built with: _execute_code's (pipeline.py:351) and
\* the 0 of the review pipelines (pipeline.py:154, 250)
RepairLimits == {0, max_repair_iterations}

\* an AgentEngine (engine.py:20-56) as the runner sees it: the calls of start
\* and stop it has received, its answer to the latest prompt, and whether a
\* prompt reached it outside its lifecycle create, start, prompts, stop
EngineCreated == [starts |-> 0, stops |-> 0, answer |-> "none", misused |-> FALSE]
EngStart(e) == [e EXCEPT !.starts = @ + 1]
EngPrompt(e, a) ==
  [e EXCEPT !.answer = a, !.misused = @ \/ e.starts = 0 \/ e.stops > 0]
EngStop(e) == [e EXCEPT !.stops = @ + 1]

\* execute_prompt returns (success, output): the success flag
Answer(ok) == IF ok THEN "ok" ELSE "fails"

\* the state after construction, whatever callbacks were handed over
InitState ==
  /\ pool = <<>>
  /\ claimed = [t \in Tasks |-> NoVm]
  /\ all_vms = {}
  /\ lock = NoTask
  /\ lockq = <<>>
  /\ wcancelled = {}
  /\ claimedKeys = <<>>
  /\ filling = FALSE
  /\ poolRunning = FALSE
  /\ fpc = [p \in FillProcs |-> "none"]
  /\ fneeded = [p \in FillProcs |-> 0]
  /\ fresults = [p \in FillProcs |-> <<>>]
  /\ loopCancel = FALSE
  /\ stopPc = "idle"
  /\ stopList = <<>>
  /\ nextVm = 0
  /\ vmState = [v \in VMs |-> "none"]
  /\ vmTask = [v \in VMs |-> NoTask]
  /\ destroyCalls = [v \in VMs |-> 0]
  /\ failures = 0
  /\ prio = [t \in Tasks |-> "medium"]
  /\ queue = {}
  /\ active = <<>>
  /\ queueRunning = FALSE
  /\ lpc = "none"
  /\ qstopPc = "idle"
  /\ cancelCall = [t \in Tasks |-> <<>>]
  /\ submitSeq = <<>>
  /\ pc = [t \in Tasks |-> "none"]
  /\ cancelPending = [t \in Tasks |-> FALSE]
  /\ raising = [t \in Tasks |-> FALSE]
  /\ max_concurrent \in 1 .. MaxConcurrent
  /\ innerGet \in BOOLEAN
  /\ got = NoTask
  /\ preReg = [t \in Tasks |-> {}]
  /\ quiet = [t \in Tasks |-> FALSE]
  /\ cvm = [t \in Tasks |-> NoVm]
  /\ boundVm = [t \in Tasks |-> NoVm]
  /\ agentEnv = [t \in Tasks |-> "none"]
  /\ directCalls = [t \in Tasks |-> 0]
  /\ cancelRet = [t \in Tasks |-> <<>>]
  /\ dpc = [t \in Tasks |-> "idle"]
  /\ dvm = [t \in Tasks |-> NoVm]
  /\ statsPc = "idle"
  /\ stats = PoolStats
  /\ rpc = "idle"
  /\ rsteps = <<>>
  /\ riter = 0
  /\ rsuccess = FALSE
  /\ rerror = ""
  /\ eng = EngineCreated
  /\ rnotify = "none"
  /\ maxRepair \in RepairLimits

\* TaskStore._load and TaskQueue.__init__ line 458: the tasks of the file are
\* put back into _tasks (and into nothing else) with every field the file has
\* (Task(**item)): a task that mark_failed wrote out comes back with its error
\* message, completed_at and duration_seconds, a task caught in flight with
\* none of them
StoreLoaded(R, s) ==
  /\ tasks = R
  /\ status = [t \in Tasks |-> IF t \in R THEN s ELSE "pending"]
  /\ disk = [t \in Tasks |-> IF t \in R THEN s ELSE "none"]
  /\ error_message = [t \in Tasks |-> IF t \in R /\ s = "failed" THEN ErrException ELSE "none"]
  /\ completed_at = [t \in Tasks |-> IF t \in R /\ s = "failed" THEN 1 ELSE 0]
  /\ duration_seconds = [t \in Tasks |-> IF t \in R /\ s = "failed" THEN 1 ELSE 0]

\* the callbacks app.py installs (lines 45-94), as long as they return; no
\* store file, and a store path that cannot be written (_flush logs the
\* exception and goes on)
Init ==
  /\ InitState
  /\ maxRepair = max_repair_iterations
  /\ callback = "returns"
  /\ storeWritable = FALSE
  /\ StoreLoaded({}, "pending")

\* a store that can be written, starting from a file that holds up to
\* MaxRestored tasks of an earlier run, finished or caught in flight
RestoredStatuses == {"failed", "running"}

InitStore ==
  /\ InitState
  /\ maxRepair = max_repair_iterations
  /\ callback = "returns"
  /\ max_concurrent = 1
  /\ storeWritable = TRUE
  /\ \E n \in 0 .. MaxRestored : \E s \in RestoredStatuses :
       StoreLoaded((NumTasks - n + 1) .. NumTasks, s)

\* a pipeline or a runner built with no callback, with one that returns, or
\* with one that raises an exception whenever it is awaited
InitCallback ==
  /\ InitState
  /\ maxRepair = max_repair_iterations
  /\ callback \in CallbackKinds
  /\ storeWritable = FALSE
  /\ StoreLoaded({}, "pending")

\* ---------------------------------------------------------------- TaskQueue
\* start(): _running = True and the dispatch loop is spawned; app.py's lifespan
\* calls it once pool_manager.start() has returned
QueueStart ==
  /\ lpc = "none"
  /\ qstopPc = "idle"
  /\ fpc[StartProc] = "done"
  /\ queueRunning' = TRUE
  /\ lpc' = "top"
  /\ UNCHANGED <<confVars, callVars, fieldVars, runnerVars, histVars,
                 poolVars, vmVars, tasks, prio, status, queue, active, got, qstopPc,
                 cancelCall, submitSeq, pipeVars>>

\* submit(task): store the task and put (priority value, id) in the queue
\* a store that only writes the task it was handed
FlushedNone(S) == disk

\* TaskStore.save: _flush writes every task of the store with the status it
\* has now (the store holds the Task objects themselves); an exception of the
\* write is logged and dropped
Flushed(S) ==
  IF storeWritable THEN [u \in Tasks |-> IF u \in S THEN status[u] ELSE disk[u]]
  ELSE disk

Submit(t, p) ==
  /\ queueRunning
  /\ t \notin tasks
  /\ tasks' = tasks \cup {t}
  /\ prio' = [prio EXCEPT ![t] = p]
  /\ queue' = queue \cup {t}
  /\ submitSeq' = Append(submitSeq, t)
  /\ disk' = Flushed(tasks \cup {t})
  /\ UNCHANGED <<max_concurrent, innerGet, callback, storeWritable, maxRepair,
                 callVars, fieldVars, runnerVars, histVars,
                 poolVars, vmVars, status, active, queueRunning, lpc, got, qstopPc,
                 cancelCall, pipeVars>>

\* a cancel_task that answers True for every id
CancelReturnAlways(t) == TRUE

\* what cancel_task returns: False when _tasks has no such id (lines 502-504),
\* True otherwise (line 516)
CancelReturn(t) == t \in tasks

\* cancel_task lines 501-510: unknown id: return False. An active pipeline that is
\* not done is cancelled and the call awaits the logger before it writes the
\* status; otherwise line 515 runs at once. Nothing keeps a call for an id
\* from starting while earlier calls for that id are at their log await: it
\* cancels the pipeline once more. The caller does what it wants with the
\* value returned.
IsActive(t) == t \in Range(active) /\ pc[t] # "done"

CancelTask(t) ==
  /\ queueRunning
  /\ IF ~CancelReturn(t)
       THEN UNCHANGED <<status, cancelPending, wcancelled, cancelCall>>
       ELSE IF IsActive(t)
         THEN /\ Len(cancelCall[t]) < MaxOverlap
              /\ cancelPending' = [cancelPending EXCEPT ![t] = TRUE]
              /\ wcancelled' = CancelWaiters({t})
              /\ cancelCall' = [cancelCall EXCEPT ![t] = Append(@, "sent")]
              /\ UNCHANGED status
         ELSE /\ status' = [status EXCEPT ![t] = "cancelled"]
              /\ UNCHANGED <<cancelPending, wcancelled, cancelCall>>
  /\ UNCHANGED <<confVars, directCalls, dpc, dvm, statsPc, stats, fieldVars,
                 runnerVars, histVars, pool, claimed, claimedKeys, all_vms, lock,
                 lockq, filling, poolRunning, fpc, fneeded, fresults, loopCancel,
                 stopPc, stopList, vmVars, tasks, prio, queue, active, queueRunning, lpc, got,
                 qstopPc, submitSeq, pc, raising, cvm, boundVm>>

\* cancel_task line 515, after the log await: task.status = CANCELLED. The wake-up
\* of the cancelled pipeline was put on the loop's ready queue by cancel(), ahead
\* of the completion of the log call, so the pipeline has taken that
\* CancelledError; a later cancel(), by stop() (lines 477-478) or by another
\* cancel_task call, may be pending.
CancelTaskFinish(t) ==
  /\ cancelCall[t] # <<>>
  /\ Head(cancelCall[t]) = "delivered"
  /\ cancelCall' = [cancelCall EXCEPT ![t] = Tail(@)]
  /\ status' = [status EXCEPT ![t] = "cancelled"]
  /\ UNCHANGED <<confVars, directCalls, dpc, dvm, statsPc, stats, fieldVars,
                 runnerVars, histVars,
                 poolVars, vmVars, tasks, prio, queue, active, queueRunning, lpc, got,
                 qstopPc, submitSeq, pipeVars>>

\* a caller of cancel_task that keeps the value returned: at once, or after the
\* log await of a call that cancelled an active pipeline
RECURSIVE SumLen(_, _)
SumLen(f, S) ==
  IF S = {} THEN 0
  ELSE LET x == CHOOSE y \in S : TRUE IN Len(f[x]) + SumLen(f, S \ {x})

\* the calls that returned, and the ones past their return decision
Recorded == SumLen(cancelRet, Tasks) + SumLen(cancelCall, Tasks)

CancelRecorded(t) ==
  /\ Recorded < MaxCancelCalls
  /\ CancelTask(t)
  /\ cancelRet' = IF CancelReturn(t) /\ IsActive(t)
                    THEN cancelRet
                    ELSE [cancelRet EXCEPT ![t] = Append(@, CancelReturn(t))]

CancelFinishRecorded(t) ==
  /\ CancelTaskFinish(t)
  /\ cancelRet' = [cancelRet EXCEPT ![t] = Append(@, TRUE)]

\* _process_loop lines 534-549. The done entries of _active are reaped in
\* insertion order; result() of a pipeline that ended with CancelledError raises
\* it, `except Exception` does not catch it, and the loop's own
\* `except asyncio.CancelledError: break` ends the loop there.
Pos(a, t) == CHOOSE i \in 1 .. Len(a) : a[i] = t
Raised(a) == {i \in 1 .. Len(a) : pc[a[i]] = "done" /\ raising[a[i]]}
FirstRaised(a) == CHOOSE i \in Raised(a) : \A j \in Raised(a) : i <= j
Reaped(a) ==
  IF Raised(a) = {}
    THEN SelectSeq(a, LAMBDA t : pc[t] # "done")
    ELSE SelectSeq(a, LAMBDA t : ~(pc[t] = "done" /\ Pos(a, t) < FirstRaised(a)))

LoopReap ==
  /\ lpc = "top"
  /\ queueRunning
  /\ active' = Reaped(active)
  /\ disk' = IF Reaped(active) # active THEN Flushed(tasks) ELSE disk
  /\ lpc' = IF Raised(active) # {} THEN "dead"
            ELSE IF AtCapacity(Len(Reaped(active))) THEN "top"
            ELSE IF queue = {} THEN "get_wait" ELSE "get"
  /\ UNCHANGED <<max_concurrent, innerGet, callback, storeWritable, maxRepair, callVars, fieldVars, runnerVars, histVars,
                 poolVars, vmVars, tasks, prio, status, queue, queueRunning, got,
                 qstopPc, cancelCall, submitSeq, pipeVars>>

\* `await asyncio.wait_for(self._queue.get(), timeout=1.0)` (line 553) is the
\* runtime's, and src/ names no Python version. Up to CPython 3.11 wait_for
\* wraps Queue.get() in a task of its own (innerGet): the entry leaves _queue
\* in a step of that task and the loop, woken by it, goes on in a later step.
\* From CPython 3.12 on wait_for awaits Queue.get() in the loop's task: the
\* entry leaves _queue in the step that dispatches it.
\* The loop is at "get" when it called wait_for with an entry in the queue
\* (Queue.get() returns it without waiting, long before the timer of 1 s)
\* and at "get_wait" when it called it on an empty queue: Queue.get() waits
\* for a put and the timer may fire first, or between a put and the wake-up
\* the put schedules.

\* lines 557-564: the task is looked up, the pipeline spawned and the log
\* awaited
Dispatch(t) ==
  /\ active' = Append(active, t)
  /\ pc' = [pc EXCEPT ![t] = "new"]
  /\ lpc' = "top"

\* _process_loop lines 551-564 where wait_for awaits Queue.get() in the loop's
\* task: get() returns the least entry and the pipeline is spawned
LoopGet ==
  /\ lpc \in {"get", "get_wait"}
  /\ ~innerGet
  /\ queue # {}
  /\ queue' = queue \ {QueueGet(queue)}
  /\ Dispatch(QueueGet(queue))
  /\ UNCHANGED <<confVars, callVars, fieldVars, runnerVars, histVars,
                 poolVars, vmVars, tasks, prio, status, queueRunning, got, qstopPc,
                 cancelCall, submitSeq, cancelPending, raising, cvm, boundVm>>

\* lines 553-555: a wait_for that found the queue empty times out before
\* Queue.get() has an entry, and the loop goes round; an entry submitted
\* since stays in the queue
LoopTimeout ==
  /\ lpc = "get_wait"
  /\ got = NoTask
  /\ lpc' = "top"
  /\ UNCHANGED <<confVars, callVars, fieldVars, runnerVars, histVars,
                 poolVars, vmVars, tasks, prio, status, queue, active, queueRunning,
                 got, qstopPc, cancelCall, submitSeq, pipeVars>>

\* line 553 where wait_for runs Queue.get() in a task of its own: that task
\* takes the least entry out of _queue and ends; the loop has not run yet
LoopTake ==
  /\ lpc \in {"get", "get_wait"}
  /\ innerGet
  /\ got = NoTask
  /\ queue # {}
  /\ got' = QueueGet(queue)
  /\ queue' = queue \ {QueueGet(queue)}
  /\ UNCHANGED <<confVars, callVars, fieldVars, runnerVars, histVars,
                 poolVars, vmVars, tasks, prio, status, active, queueRunning, lpc,
                 qstopPc, cancelCall, submitSeq, pipeVars>>

\* lines 553-564 once wait_for returns the entry its task took: the pipeline
\* is spawned, whatever was submitted since and whether or not stop() has
\* cancelled the loop (wait_for returns the result of a finished task to a
\* cancelled caller)
LoopDispatch ==
  /\ lpc \in {"get", "get_wait"}
  /\ got # NoTask
  /\ Dispatch(got)
  /\ got' = NoTask
  /\ UNCHANGED <<confVars, callVars, fieldVars, runnerVars, histVars,
                 poolVars, vmVars, tasks, prio, status, queue, queueRunning, qstopPc,
                 cancelCall, submitSeq, cancelPending, raising, cvm, boundVm>>

\* line 531 after the log await of a dispatch that outlived stop(): _running
\* is False and the loop ends
LoopExit ==
  /\ lpc = "top"
  /\ ~queueRunning
  /\ lpc' = "dead"
  /\ UNCHANGED <<confVars, callVars, fieldVars, runnerVars, histVars,
                 poolVars, vmVars, tasks, prio, status, queue, active, queueRunning,
                 got, qstopPc, cancelCall, submitSeq, pipeVars>>

\* _loop_task.cancel() reaches a loop that is inside wait_for while the task
\* wait_for made has the entry, or is scheduled to take it (the queue is not
\* empty): wait_for returns the entry and the CancelledError is dropped. Any
\* other await of the loop raises it and line 566 ends the loop.
CancelDropped ==
  innerGet /\ lpc \in {"get", "get_wait"} /\ (got # NoTask \/ queue # {})

\* stop() lines 468-473: _running = False, the loop is cancelled and awaited
QueueStop ==
  /\ queueRunning
  /\ qstopPc = "idle"
  /\ queueRunning' = FALSE
  /\ lpc' = IF CancelDropped THEN lpc ELSE "dead"
  /\ qstopPc' = "cancel"
  /\ UNCHANGED <<confVars, callVars, fieldVars, runnerVars, histVars,
                 poolVars, vmVars, tasks, prio, status, queue, active, got, cancelCall,
                 submitSeq, pipeVars>>

\* stop() lines 473-478: the loop task has ended; cancel every entry of _active
QueueStopCancel ==
  /\ qstopPc = "cancel"
  /\ lpc = "dead"
  /\ cancelPending' = [t \in Tasks |-> cancelPending[t] \/ IsActive(t)]
  /\ wcancelled' = CancelWaiters({t \in Tasks : IsActive(t)})
  /\ qstopPc' = "gather"
  /\ UNCHANGED <<confVars, callVars, fieldVars, runnerVars, histVars,
                 pool, claimed, claimedKeys, all_vms, lock, lockq, filling,
                 poolRunning, fpc, fneeded, fresults, loopCancel, stopPc, stopList,
                 vmVars, tasks, prio, status, queue, active, queueRunning,
                 lpc, got, cancelCall, submitSeq, pc, raising, cvm, boundVm>>

\* stop() lines 479-481: gather returns once every entry of _active is done
QueueStopped ==
  /\ qstopPc = "gather"
  /\ \A t \in Range(active) : pc[t] = "done"
  /\ qstopPc' = "done"
  /\ UNCHANGED <<confVars, callVars, fieldVars, runnerVars, histVars,
                 poolVars, vmVars, tasks, prio, status, queue, active, queueRunning,
                 lpc, got, cancelCall, submitSeq, pipeVars>>

\* ------------------------------------------------- AgentRunner.run, alone
\* One call of AgentRunner.run on a sandbox and an engine, outside a pipeline.
\* exec_in_vm answers with an exit code: 0, a failure, or 124 when the command
\* ran into its timeout (pool_manager.py:206-215).
ExitOk == 0
ExitFail == 1
ExitTimeout == 124
ExitCodes == {ExitOk, ExitFail, ExitTimeout}

\* stderr of exec_in_vm as StepResult.error keeps it: empty on success
NoError == ""
ErrStderr == "stderr"
ErrCommandTimedOut == "Command timed out"
ErrSetupFailed == "Setup failed"
ErrCodingFailed == "Coding failed"
ErrCommitFailed == "Commit/push failed"
\* f"Max repair iterations ({self.max_repair_iterations}) exhausted"
ErrMaxRepair == "Max repair iterations (5) exhausted"
ErrMaxRepairNone == "Max repair iterations (0) exhausted"
ErrExhausted(n) == IF n = max_repair_iterations THEN ErrMaxRepair ELSE ErrMaxRepairNone

\* f"Task timed out after {task.timeout_seconds}s"
ErrTaskTimedOut == "Task timed out"

\* StepResult of a deterministic step: success = (exit_code == 0),
\* error = stderr if exit_code != 0 else ""
ExecStep(s, c) ==
  [step |-> s, success |-> (c = ExitOk),
   error |-> IF c = ExitOk THEN NoError
             ELSE IF c = ExitTimeout THEN ErrCommandTimedOut ELSE ErrStderr]

\* StepResult of an engine step; analyze, plan and repair are best-effort and
\* always report success
EngineStep(s, ok) == [step |-> s, success |-> ok, error |-> IF ok THEN NoError ELSE ErrStderr]

\* what is not the runner's
NotRunner == <<poolVars, vmVars, queueVars, pipeVars, confVars, histVars,
               fieldVars, callVars>>

\* the StepResult appended last
LastStep == rsteps[Len(rsteps)]

\* a _notify that lets the exception of the callback through
NotifyPropagates(cb) == cb = "raises"

\* _notify (runner.py:1213-1223): on_step_complete is awaited inside
\* try / except Exception, which logs the exception and goes on
NotifyEscapes(cb) == FALSE

\* an exception leaving _notify would end run in its `except Exception`
\* (lines 457-460), which keeps str(e)
NotifyRaised == rpc' = "stop" /\ rerror' = ErrException

\* a return of line 365 that left the function at once
SetupFailedLeaves == "returned"

\* run lines 363-365 and 461-463: the return inside try goes through finally
SetupFailedReturn == "stop"

\* a best-effort step that reported what the engine answered
BestEffortReports(ok) == ok

\* _step_analyze, _step_plan, _step_repair (lines 603, 616, 659):
\* success=True whatever execute_prompt returned
BestEffort(ok) == TRUE

\* the for statement of line 398 taking its next value after i, or running
\* into its else clause (lines 433-436)
LoopNext(i) ==
  IF i < maxRepair
    THEN /\ riter' = i + 1
         /\ rpc' = "lint"
         /\ UNCHANGED rerror
    ELSE /\ rerror' = ErrExhausted(maxRepair)
         /\ rpc' = "stop"
         /\ UNCHANGED riter

\* a loop that goes on to the tests whatever the linter said
AfterLintToTest(ok) == "test"

\* run lines 406-412: `if not lint_result.success:` repair and continue
AfterLint(ok) == IF ok THEN "test" ELSE "repair"

\* a loop that leaves for the commit whatever the tests said
AfterTestToCommit(ok) == "commit"

\* run lines 423-432: `if not test_result.success:` repair and continue,
\* else break
AfterTest(ok) == IF ok THEN "commit" ELSE "repair"

\* run_review lines 153-233: the step that follows each step but the first and
\* the last, whatever the step reported; the engine is started between the
\* security scan and the file review (line 193)
ReviewNext ==
  [inventory |-> "deps", deps |-> "metrics", metrics |-> "security",
   security |-> "rv_engine_start", file_review |-> "synthesis",
   synthesis |-> "report", report |-> "git_stats"]

\* run, run_review and run_peer_review from the return of `await self._notify(...)` for the
\* step at position p, whose result is s, to the next await: the tests on the
\* result, result.error, result.success and the loop counter are all written
\* there. empty: whether the output of the diff step is blank.
AfterNotify(p, s, empty) ==
  CASE p \in {"setup", "pr_setup"} ->
         /\ IF s.success
              THEN /\ rpc' = (IF p = "setup" THEN "engine_start" ELSE "pr_diff")
                   /\ UNCHANGED rerror
              ELSE /\ rpc' = (IF p = "setup" THEN SetupFailedReturn ELSE "stop")
                   /\ rerror' = ErrSetupFailed
         /\ UNCHANGED <<riter, rsuccess>>
    [] p = "analyze" -> rpc' = "plan" /\ UNCHANGED <<rerror, riter, rsuccess>>
    [] p = "plan" -> rpc' = "code" /\ UNCHANGED <<rerror, riter, rsuccess>>
    [] p = "code" ->
         /\ IF s.success
              THEN LoopNext(0)
              ELSE rpc' = "stop" /\ rerror' = ErrCodingFailed /\ UNCHANGED riter
         /\ UNCHANGED rsuccess
    [] p = "lint" ->
         rpc' = AfterLint(s.success) /\ UNCHANGED <<rerror, riter, rsuccess>>
    [] p = "test" ->
         rpc' = AfterTest(s.success) /\ UNCHANGED <<rerror, riter, rsuccess>>
    [] p = "repair" -> LoopNext(riter) /\ UNCHANGED rsuccess
    [] p = "commit" ->
         /\ rpc' = "stop"
         /\ IF s.success
              THEN rsuccess' = TRUE /\ UNCHANGED rerror
              ELSE rerror' = ErrCommitFailed /\ UNCHANGED rsuccess
         /\ UNCHANGED riter
    [] p = "pr_diff" ->
         /\ IF empty
              THEN rpc' = "stop" /\ rsuccess' = TRUE
              ELSE rpc' = "pr_engine_start" /\ UNCHANGED rsuccess
         /\ UNCHANGED <<rerror, riter>>
    [] p = "pr_review" -> rpc' = "pr_feedback" /\ UNCHANGED <<rerror, riter, rsuccess>>
    [] p = "rv_setup" ->
         /\ IF s.success
              THEN rpc' = "inventory" /\ UNCHANGED rerror
              ELSE rpc' = "stop" /\ rerror' = ErrSetupFailed
         /\ UNCHANGED <<riter, rsuccess>>
    [] p \in DOMAIN ReviewNext ->
         rpc' = ReviewNext[p] /\ UNCHANGED <<rerror, riter, rsuccess>>
    [] p = "git_stats" ->
         rpc' = "stop" /\ rsuccess' = TRUE /\ UNCHANGED <<rerror, riter>>
    [] p = "pr_feedback" ->
         rpc' = "stop" /\ rsuccess' = TRUE /\ UNCHANGED <<rerror, riter>>

\* `await self._notify(step_result)` right after result.steps.append: with no
\* callback (line 1215) _notify returns without suspending and the run goes on
\* at once; with one, the run is suspended in on_step_complete (line 1217)
\* with nothing but the step recorded
Notify(p, s, empty) ==
  IF callback = "none"
    THEN rnotify' = "none" /\ AfterNotify(p, s, empty)
    ELSE rnotify' = "callback" /\ rpc' = p /\ UNCHANGED <<rerror, riter, rsuccess>>

\* _notify lines 1218-1223: on_step_complete raises, `except Exception` awaits
\* logger.awarning
RunNotifyRaised ==
  /\ rnotify = "callback"
  /\ callback = "raises"
  /\ IF NotifyEscapes(callback)
       THEN NotifyRaised /\ rnotify' = "none"
       ELSE rnotify' = "log" /\ UNCHANGED <<rpc, rerror>>
  /\ UNCHANGED <<rsteps, riter, rsuccess, eng, NotRunner>>

\* _notify returns (the callback has returned, or the warning has been logged)
\* and the run goes on to its next await
RunNotified ==
  /\ \/ rnotify = "log"
     \/ rnotify = "callback" /\ callback # "raises"
  /\ rnotify' = "none"
  /\ \E empty \in BOOLEAN : AfterNotify(rpc, LastStep, empty)
  /\ UNCHANGED <<rsteps, eng, NotRunner>>

\* run lines 359-362: _step_setup returns and its result is recorded
RunSetup(c) ==
  /\ rpc = "idle"
  /\ rnotify = "none"
  /\ rsteps' = Append(rsteps, ExecStep("setup", c))
  /\ Notify("setup", ExecStep("setup", c), FALSE)
  /\ UNCHANGED <<eng, NotRunner>>

\* run lines 369-371 and 457-460: engine.start returns, or raises and the
\* handler keeps str(e)
RunEngineStart(ok) ==
  /\ rpc = "engine_start"
  /\ rnotify = "none"
  /\ IF ok
       THEN rpc' = "analyze" /\ UNCHANGED rerror
       ELSE rpc' = "stop" /\ rerror' = ErrException
  /\ eng' = EngStart(eng)
  /\ UNCHANGED <<rsteps, riter, rsuccess, rnotify, NotRunner>>

\* run lines 373-377: _step_analyze, success whatever the engine answered
RunAnalyze(ok) ==
  /\ rpc = "analyze"
  /\ rnotify = "none"
  /\ eng' = EngPrompt(eng, Answer(ok))
  /\ rsteps' = Append(rsteps, EngineStep("analyze", BestEffort(ok)))
  /\ Notify("analyze", EngineStep("analyze", BestEffort(ok)), FALSE)
  /\ UNCHANGED NotRunner

\* run lines 380-384: _step_plan
RunPlan(ok) ==
  /\ rpc = "plan"
  /\ rnotify = "none"
  /\ eng' = EngPrompt(eng, Answer(ok))
  /\ rsteps' = Append(rsteps, EngineStep("plan", BestEffort(ok)))
  /\ Notify("plan", EngineStep("plan", BestEffort(ok)), FALSE)
  /\ UNCHANGED NotRunner

\* run lines 387-390: _step_code with the engine's success flag
RunCode(ok) ==
  /\ rpc = "code"
  /\ rnotify = "none"
  /\ eng' = EngPrompt(eng, Answer(ok))
  /\ rsteps' = Append(rsteps, EngineStep("code", ok))
  /\ Notify("code", EngineStep("code", ok), FALSE)
  /\ UNCHANGED NotRunner

\* run lines 402-404: _step_lint
RunLint(c) ==
  /\ rpc = "lint"
  /\ rnotify = "none"
  /\ rsteps' = Append(rsteps, ExecStep("lint", c))
  /\ Notify("lint", ExecStep("lint", c), FALSE)
  /\ UNCHANGED <<eng, NotRunner>>

\* run lines 417-420: _step_test
RunTest(c) ==
  /\ rpc = "test"
  /\ rnotify = "none"
  /\ rsteps' = Append(rsteps, ExecStep("test", c))
  /\ Notify("test", ExecStep("test", c), FALSE)
  /\ UNCHANGED <<eng, NotRunner>>

\* run lines 408-410 and 425-428: _step_repair
RunRepair(ok) ==
  /\ rpc = "repair"
  /\ rnotify = "none"
  /\ eng' = EngPrompt(eng, Answer(ok))
  /\ rsteps' = Append(rsteps, EngineStep("repair", BestEffort(ok)))
  /\ Notify("repair", EngineStep("repair", BestEffort(ok)), FALSE)
  /\ UNCHANGED NotRunner

\* run lines 440-442: _step_commit (the exit code of its git diff is not read)
RunCommit(c) ==
  /\ rpc = "commit"
  /\ rnotify = "none"
  /\ rsteps' = Append(rsteps, ExecStep("commit", c))
  /\ Notify("commit", ExecStep("commit", c), FALSE)
  /\ UNCHANGED <<eng, NotRunner>>

\* run lines 461-467: finally engine.stop(), return result
RunStop ==
  /\ rpc = "stop"
  /\ eng' = EngStop(eng)
  /\ rpc' = "returned"
  /\ UNCHANGED <<rsteps, riter, rsuccess, rerror, rnotify, NotRunner>>

\* the second ending of run and run_peer_review: a CancelledError goes
\* through finally (engine.stop()) and leaves the function
RunStopRaise ==
  /\ rpc = "stop_c"
  /\ eng' = EngStop(eng)
  /\ rpc' = "raised"
  /\ UNCHANGED <<rsteps, riter, rsuccess, rerror, rnotify, NotRunner>>

\* run_review lines 153-180: the four scans between the clone and the engine
ScanPositions == {"inventory", "deps", "metrics", "security"}

\* the awaits of the try block at which the engine is being started, and
\* those at which a prompt is with the engine
StartPositions == {"engine_start", "pr_engine_start", "rv_engine_start"}
PromptPositions ==
  {"analyze", "plan", "code", "repair", "pr_review", "pr_feedback",
   "file_review", "synthesis", "report"}
TryPositions ==
  {"idle", "lint", "test", "commit", "pr_diff", "git_stats"}
    \cup ScanPositions \cup StartPositions \cup PromptPositions

Interruptions == {"exception", "timeout", "cancelled"}

\* run lines 453-463, run_peer_review lines 331-341: the await the run is
\* at raises instead of returning, an exception, a TimeoutError, or the
\* CancelledError of a cancelled pipeline. In a step's call or in
\* engine.start the call has reached the engine. Inside _notify only the
\* CancelledError gets out (an exception of the callback is caught there),
\* and the engine has not been called again. _step_file_level_review reads
\* the files from the sandbox (lines 935-940) before it prompts the engine:
\* interrupted there, the engine has not been called either.
RunInterrupted(k) ==
  /\ IF rnotify = "none" THEN rpc \in TryPositions ELSE k = "cancelled"
  /\ \/ eng' = IF rnotify # "none" THEN eng
               ELSE IF rpc \in StartPositions THEN EngStart(eng)
               ELSE IF rpc \in PromptPositions THEN EngPrompt(eng, "raises")
               ELSE eng
     \/ rnotify = "none" /\ rpc = "file_review" /\ eng' = eng
  /\ rnotify' = "none"
  /\ rpc' = IF k = "cancelled" THEN "stop_c" ELSE "stop"
  /\ rerror' = IF k = "exception" THEN ErrException
               ELSE IF k = "timeout" THEN ErrTaskTimedOut ELSE rerror
  /\ UNCHANGED <<rsteps, riter, rsuccess, NotRunner>>

\* the finally of lines 461-463 and 339-341 cancelled while engine.stop()
\* is awaited
RunStopInterrupted ==
  /\ rpc = "stop"
  /\ eng' = EngStop(eng)
  /\ rpc' = "raised"
  /\ UNCHANGED <<rsteps, riter, rsuccess, rerror, rnotify, NotRunner>>

\* run_peer_review lines 277-284: _step_setup_peer_review
PeerSetup(c) ==
  /\ rpc = "idle"
  /\ rnotify = "none"
  /\ rsteps' = Append(rsteps, ExecStep("setup", c))
  /\ Notify("pr_setup", ExecStep("setup", c), FALSE)
  /\ UNCHANGED <<eng, NotRunner>>

\* run_peer_review lines 291-294: _step_get_diff (a StepType.ANALYZE step);
\* lines 295-301, after the notification: an empty diff ends the review with
\* success
PeerDiff(c, empty) ==
  /\ rpc = "pr_diff"
  /\ rnotify = "none"
  /\ rsteps' = Append(rsteps, ExecStep("analyze", c))
  /\ Notify("pr_diff", ExecStep("analyze", c), empty)
  /\ UNCHANGED <<eng, NotRunner>>

\* run_peer_review lines 306-308: engine.start
PeerEngineStart(ok) ==
  /\ rpc = "pr_engine_start"
  /\ rnotify = "none"
  /\ IF ok
       THEN rpc' = "pr_review" /\ UNCHANGED rerror
       ELSE rpc' = "stop" /\ rerror' = ErrException
  /\ eng' = EngStart(eng)
  /\ UNCHANGED <<rsteps, riter, rsuccess, rnotify, NotRunner>>

\* run_peer_review lines 311-314: _step_peer_review, success=True
PeerReview(ok) ==
  /\ rpc = "pr_review"
  /\ rnotify = "none"
  /\ eng' = EngPrompt(eng, Answer(ok))
  /\ rsteps' = Append(rsteps, EngineStep("analyze", BestEffort(ok)))
  /\ Notify("pr_review", EngineStep("analyze", BestEffort(ok)), FALSE)
  /\ UNCHANGED NotRunner

\* run_peer_review lines 318-321: _step_peer_review_feedback
PeerFeedback(ok) ==
  /\ rpc = "pr_feedback"
  /\ rnotify = "none"
  /\ eng' = EngPrompt(eng, Answer(ok))
  /\ rsteps' = Append(rsteps, EngineStep("analyze", ok))
  /\ Notify("pr_feedback", EngineStep("analyze", ok), FALSE)
  /\ UNCHANGED NotRunner

\* run_review lines 144-150: _step_setup_review
ReviewSetup(c) ==
  /\ rpc = "idle"
  /\ rnotify = "none"
  /\ rsteps' = Append(rsteps, ExecStep("setup", c))
  /\ Notify("rv_setup", ExecStep("setup", c), FALSE)
  /\ UNCHANGED <<eng, NotRunner>>

\* run_review lines 153-180: _step_file_inventory, _step_dependency_analysis,
\* _step_code_metrics and _step_ast_security_scan each return success=True
\* with no error, whatever their commands answered
ReviewScan(s) ==
  /\ rpc = s
  /\ rnotify = "none"
  /\ rsteps' = Append(rsteps, EngineStep(s, TRUE))
  /\ Notify(s, EngineStep(s, TRUE), FALSE)
  /\ UNCHANGED <<eng, NotRunner>>

\* run_review lines 192-194: engine.start
ReviewEngineStart(ok) ==
  /\ rpc = "rv_engine_start"
  /\ rnotify = "none"
  /\ IF ok
       THEN rpc' = "file_review" /\ UNCHANGED rerror
       ELSE rpc' = "stop" /\ rerror' = ErrException
  /\ eng' = EngStart(eng)
  /\ UNCHANGED <<rsteps, riter, rsuccess, rnotify, NotRunner>>

\* run_review lines 197-213: _step_file_level_review and
\* _step_cross_file_synthesis, success=True whatever the engine answered
ReviewPrompt(s, ok) ==
  /\ rpc = s
  /\ rnotify = "none"
  /\ eng' = EngPrompt(eng, Answer(ok))
  /\ rsteps' = Append(rsteps, EngineStep(s, BestEffort(ok)))
  /\ Notify(s, EngineStep(s, BestEffort(ok)), FALSE)
  /\ UNCHANGED NotRunner

\* run_review lines 215-226: _step_generate_report keeps the engine's answer
\* as its success, and the review goes on whatever it is
ReviewReport(ok) ==
  /\ rpc = "report"
  /\ rnotify = "none"
  /\ eng' = EngPrompt(eng, Answer(ok))
  /\ rsteps' = Append(rsteps, EngineStep("report", ok))
  /\ Notify("report", EngineStep("report", ok), FALSE)
  /\ UNCHANGED NotRunner

\* run_review lines 228-236: _step_git_stats (a StepType.ANALYZE step that
\* always succeeds); after the notification result.success = True
ReviewGitStats ==
  /\ rpc = "git_stats"
  /\ rnotify = "none"
  /\ rsteps' = Append(rsteps, EngineStep("analyze", TRUE))
  /\ Notify("git_stats", EngineStep("analyze", TRUE), FALSE)
  /\ UNCHANGED <<eng, NotRunner>>

\* ------------------------------------------------------------ specification
\* the coroutines of the pool, of the pipelines and of the dispatch loop
ChildIds == 1 .. TargetSize

PoolRun ==
  \/ PoolStart
  \/ PoolStarted
  \/ RefillCheck
  \/ \E P \in FillProcs : FillBegin(P)
  \/ \E P \in FillProcs : FillLogged(P)
  \/ \E P \in FillProcs : FillChildStart(P)
  \/ \E P \in FillProcs : \E i \in ChildIds : FillCreate(P, i)
  \/ \E P \in FillProcs : \E i \in ChildIds : FillWarm(P, i)
  \/ \E P \in FillProcs : FillAppend(P)
  \/ \E P \in FillProcs : FillFinally(P)
  \/ \E P \in FillProcs : FillWaits(P)

PipeSteps(t) ==
  \/ PipelineStart(t)
  \/ ClaimVm(t)
  \/ ClaimVmLocked(t)
  \/ ClaimLogged(t)
  \/ ClaimCreate(t)
  \/ ClaimWarm(t)
  \/ ClaimWarmed(t)
  \/ RunAgent(t)
  \/ ReleaseVm(t)
  \/ ReleaseVmLocked(t)
  \/ ReleaseDestroyed(t)
  \/ ReleaseUnregister(t)
  \/ PipelineReturn(t)

\* a pipeline over a sandbox and an engine that work
PipeRun(t) ==
  \/ PipeSteps(t)
  \/ AfterClaim(t, "passes")

QueueRun ==
  \/ QueueStart
  \/ LoopReap
  \/ LoopGet
  \/ LoopTimeout
  \/ LoopTake
  \/ LoopDispatch

\* cancel_task calls and the delivery of the cancellations
Cancels ==
  \/ \E t \in Tasks : CancelTask(t) /\ UNCHANGED cancelRet
  \/ \E t \in Tasks : CancelTaskFinish(t) /\ UNCHANGED cancelRet
  \/ \E t \in Tasks : DeliverCancel(t)

\* the same calls made by callers that keep what cancel_task returned
CancelsRecorded ==
  \/ \E t \in Tasks : CancelRecorded(t)
  \/ \E t \in Tasks : CancelFinishRecorded(t)
  \/ \E t \in Tasks : DeliverCancel(t)

\* the lifespan's shutdown: task_queue.stop(), then pool_manager.stop()
Shutdown ==
  \/ QueueStop
  \/ LoopExit
  \/ QueueStopCancel
  \/ QueueStopped
  \/ PoolStop
  \/ PoolStopLocked
  \/ PoolStopDestroy
  \/ PoolStopLogged
  \/ RefillCancelled

\* release_vm called directly for any id
DirectRelease(t) ==
  \/ ReleaseDirect(t)
  \/ ReleaseDirectLocked(t)
  \/ ReleaseDirectDestroyed(t)
  \/ ReleaseDirectUnregister(t)
  \/ ReleaseDirectReturn(t)

\* get_stats awaited by a caller
Stats ==
  \/ GetStats
  \/ GetStatsLocked

Next ==
  \/ PoolRun
  \/ QueueRun
  \/ \E t \in Tasks : \E p \in PriorityNames : Submit(t, p)
  \/ \E t \in Tasks : PipeRun(t)
  \/ Cancels
  \/ Shutdown
  \/ \E t \in Tasks : DirectRelease(t)
  \/ Stats
  \/ \E t \in Tasks : \E k \in MarkKinds : TaskMarked(t, k)

Spec == Init /\ [][Next]_vars

\* The system without shutdown and without cancellation.
NextRun ==
  \/ PoolRun
  \/ QueueRun
  \/ \E t \in Tasks : \E p \in PriorityNames : Submit(t, p)
  \/ \E t \in Tasks : PipeRun(t)

SpecRun == Init /\ [][NextRun]_vars

\* The same with cancel_task; every task is submitted with the default priority.
NextCancel ==
  \/ PoolRun
  \/ QueueRun
  \/ \E t \in Tasks : Submit(t, "medium")
  \/ \E t \in Tasks : PipeRun(t)
  \/ Cancels

\* a runtime whose wait_for runs Queue.get() in a task of its own: the loop
\* takes an entry in one step and spawns its pipeline in the next, and what
\* can come between the two comes between them; the runtime that awaits
\* Queue.get() in the loop's own task does both in one step, so every state
\* of _tasks, _active, the pipelines and the pool it reaches is reached here
InitFair == Init /\ innerGet

\* cancel_task called for the first ids only (the other pipelines run beside
\* the cancelled ones, submitted before or after them), any number of times
\* and up to MaxOverlap calls at once, on the runtime of InitFair
CancelsFirst ==
  \/ \E t \in 1 .. MaxCancelled : CancelTask(t) /\ UNCHANGED cancelRet
  \/ \E t \in 1 .. MaxCancelled : CancelTaskFinish(t) /\ UNCHANGED cancelRet
  \/ \E t \in 1 .. MaxCancelled : DeliverCancel(t)

NextCancelFirst ==
  \/ PoolRun
  \/ QueueStart
  \/ LoopReap
  \/ LoopTimeout
  \/ LoopTake
  \/ LoopDispatch
  \/ \E t \in Tasks : Submit(t, "medium")
  \/ \E t \in Tasks : PipeRun(t)
  \/ CancelsFirst

SpecCancel == InitFair /\ [][NextCancelFirst]_vars

\* The system without shutdown and cancellation under asyncio's scheduling: the
\* event loop runs its ready callbacks in FIFO order, so a coroutine that can
\* take a step takes it. Submissions are the environment's and are not forced.
StartStep ==
  \/ PoolStart
  \/ PoolStarted
  \/ FillBegin(StartProc)
  \/ FillLogged(StartProc)
  \/ FillChildStart(StartProc)
  \/ \E i \in ChildIds : FillCreate(StartProc, i)
  \/ \E i \in ChildIds : FillWarm(StartProc, i)
  \/ FillAppend(StartProc)
  \/ FillFinally(StartProc)
  \/ FillWaits(StartProc)

LoopStep ==
  \/ RefillCheck
  \/ FillBegin(LoopProc)
  \/ FillLogged(LoopProc)
  \/ FillChildStart(LoopProc)
  \/ \E i \in ChildIds : FillCreate(LoopProc, i)
  \/ \E i \in ChildIds : FillWarm(LoopProc, i)
  \/ FillAppend(LoopProc)
  \/ FillFinally(LoopProc)
  \/ FillWaits(LoopProc)

\* The system with a queue that runs one pipeline at a time and cancel_task
\* called for any id, submitted or not, by callers that keep the value it returns.
NextApi ==
  \/ PoolRun
  \/ QueueRun
  \/ \E t \in Tasks : Submit(t, "medium")
  \/ \E t \in Tasks : PipeRun(t)
  \/ CancelsRecorded

\* a TaskQueue built with max_concurrent = 1
InitApi == Init /\ max_concurrent = 1

SpecApi == InitApi /\ [][NextApi]_vars

\* The system without cancellation, with release_vm also called directly for
\* any id no pipeline is running for.
NextRelease ==
  \/ PoolRun
  \/ QueueRun
  \/ \E t \in Tasks : Submit(t, "medium")
  \/ \E t \in Tasks : PipeRun(t)
  \/ \E t \in Tasks : DirectRelease(t)

SpecRelease == Init /\ [][NextRelease]_vars

\* One AgentRunner.run on a sandbox whose commands pass, fail or time out.
NextRunner ==
  \/ \E c \in ExitCodes : RunSetup(c)
  \/ \E ok \in BOOLEAN : RunEngineStart(ok)
  \/ \E ok \in BOOLEAN : RunAnalyze(ok)
  \/ \E ok \in BOOLEAN : RunPlan(ok)
  \/ \E ok \in BOOLEAN : RunCode(ok)
  \/ \E c \in ExitCodes : RunLint(c)
  \/ \E c \in ExitCodes : RunTest(c)
  \/ \E ok \in BOOLEAN : RunRepair(ok)
  \/ \E c \in ExitCodes : RunCommit(c)
  \/ RunNotified
  \/ RunStop

SpecRunner == Init /\ [][NextRunner]_vars

\* AgentRunner.run, run_review and run_peer_review called on their own, over
\* a sandbox and an engine whose calls may raise, by a pipeline that may be
\* cancelled or time out
NextEngine ==
  \/ NextRunner
  \/ \E c \in ExitCodes : PeerSetup(c)
  \/ \E c \in ExitCodes, empty \in BOOLEAN : PeerDiff(c, empty)
  \/ \E ok \in BOOLEAN : PeerEngineStart(ok)
  \/ \E ok \in BOOLEAN : PeerReview(ok)
  \/ \E ok \in BOOLEAN : PeerFeedback(ok)
  \/ \E c \in ExitCodes : ReviewSetup(c)
  \/ \E s \in ScanPositions : ReviewScan(s)
  \/ \E ok \in BOOLEAN : ReviewEngineStart(ok)
  \/ \E s \in {"file_review", "synthesis"}, ok \in BOOLEAN : ReviewPrompt(s, ok)
  \/ \E ok \in BOOLEAN : ReviewReport(ok)
  \/ ReviewGitStats
  \/ \E k \in Interruptions : RunInterrupted(k)
  \/ RunStopInterrupted
  \/ RunStopRaise

SpecEngine == Init /\ [][NextEngine]_vars

\* The system without cancellation, over sandboxes and engines of every kind.
PipeAgent(t) ==
  \/ PipeSteps(t)
  \/ \E e \in AgentEnvs : AfterClaim(t, e)

NextAgent ==
  \/ PoolRun
  \/ QueueRun
  \/ \E t \in Tasks : Submit(t, "medium")
  \/ \E t \in Tasks : PipeAgent(t)

SpecAgent == Init /\ [][NextAgent]_vars

\* a run that the lifespan shuts down: task_queue.stop(), then pool_manager.stop()
NextStop ==
  \/ PoolRun
  \/ QueueRun
  \/ \E t \in Tasks : Submit(t, "medium")
  \/ \E t \in Tasks : PipeRun(t)
  \/ \E t \in Tasks : DeliverCancel(t)
  \/ Shutdown

SpecStop == Init /\ [][NextStop]_vars

\* callbacks of every kind: either the queue runs pipelines (which in this code
\* never get into AgentRunner.run), or AgentRunner.run is called on its own
NextCallback ==
  \/ /\ rpc = "idle"
     /\ \/ PoolRun
        \/ QueueRun
        \/ \E t \in Tasks : Submit(t, "medium")
        \/ \E t \in Tasks : PipeRun(t)
  \/ /\ ~poolRunning
     /\ \/ NextRunner
        \/ RunNotifyRaised

SpecCallback == InitCallback /\ [][NextCallback]_vars

\* The system with cancellation, a queue that runs one pipeline at a time and
\* a task store that can be written and may hold tasks of an earlier run
SpecStore == InitStore /\ [][NextCancel]_vars

\* AgentRunner.run called on its own by a runner built with any of the limits
InitRepair ==
  /\ InitState
  /\ callback = "returns"
  /\ storeWritable = FALSE
  /\ StoreLoaded({}, "pending")

SpecRepair == InitRepair /\ [][NextRunner]_vars

\* The pool under fair scheduling, on the runtime of InitFair (the pool sees
\* neither _queue nor the entry the task of Queue.get() holds).
NextFair ==
  \/ PoolRun
  \/ QueueStart
  \/ LoopReap
  \/ LoopTimeout
  \/ LoopTake
  \/ LoopDispatch
  \/ \E t \in Tasks : Submit(t, "medium")
  \/ \E t \in Tasks : PipeRun(t)

Fairness ==
  /\ WF_vars(StartStep)
  /\ WF_vars(LoopStep)
  /\ WF_vars(QueueRun)
  /\ \A t \in Tasks : WF_vars(PipeRun(t))

SpecFair == InitFair /\ [][NextFair]_vars /\ Fairness

\* The same scheduling with cancel_task called by clients, for a queue that
\* runs one pipeline at a time; the calls of the clients are not forced, a
\* cancellation that was requested is delivered.
FairnessCancel ==
  /\ Fairness
  /\ \A t \in Tasks : WF_vars(DeliverCancel(t))
  /\ \A t \in Tasks : WF_vars(CancelTaskFinish(t) /\ UNCHANGED cancelRet)

SpecFairCancel == InitApi /\ [][NextCancel]_vars /\ FairnessCancel

\* ------------------------------------------------------------------ claims
Bound(t) == claimed[t] # NoVm

\* C1: in every reachable state no sandbox id is bound to two distinct task ids
\* in the claimed map, whatever the interleaving of claim_vm and release_vm calls
\* (pool hit and emergency path).
C1_NoDoubleClaim ==
  \A t \in Tasks : \A u \in Tasks :
    (t # u /\ Bound(t) /\ Bound(u)) => claimed[t] # claimed[u]

\* two tasks hold a claim at once, one from the FIFO and one made on the
\* emergency path
C1_Witness ==
  \E t \in Tasks : \E u \in Tasks :
    /\ t # u /\ Bound(t) /\ Bound(u)
    /\ claimed[t] \in preReg[t]
    /\ claimed[u] \notin preReg[u]

\* C5: the active map never holds more than max_concurrent pipelines, so the
\* dispatch loop never spawns one when the count is already max_concurrent.
C5_ActiveBounded == Len(active) <= max_concurrent

\* the active map is full and a submitted task waits in the queue
C5_Witness ==
  /\ Len(active) = max_concurrent
  /\ queue # {}
  /\ lpc = "top"

\* position of task t in the order of the submit calls
SubmitPos(t) == CHOOSE i \in 1 .. Len(submitSeq) : submitSeq[i] = t
Dispatched(t) == t \in queue /\ t \notin queue'

\* C6: when the dispatch loop pops, no task left waiting is strictly more urgent
\* than the one it dispatches, whatever the submission order.
C6_UrgentFirst ==
  [][\A t \in Tasks : \A u \in Tasks :
       (Dispatched(t) /\ u \in queue')
         => PriorityValue(prio[t]) <= PriorityValue(prio[u])]_vars

\* a task was dispatched ahead of a less urgent one that was submitted before it
C6_Witness ==
  \E t \in Tasks : \E u \in Tasks :
    /\ pc[t] = "new" /\ u \in queue
    /\ PriorityValue(prio[t]) < PriorityValue(prio[u])
    /\ SubmitPos(u) < SubmitPos(t)

\* C8: a sandbox is in at most one of the ready FIFO and the claimed map, and at
\* most once in the ready FIFO.
C8_PoolDisjoint ==
  /\ \A i \in 1 .. Len(pool) : \A j \in 1 .. Len(pool) : pool[i] = pool[j] => i = j
  /\ \A t \in Tasks : Bound(t) => claimed[t] \notin Range(pool)

\* a refill has put new sandboxes in the FIFO while a task holds a claim
C8_Witness ==
  /\ \E t \in Tasks : Bound(t)
  /\ \E i \in 1 .. Len(pool) : pool[i] > TargetSize

\* the pipeline of t has ended after claim_vm had bound a sandbox to t
EndedBound(t) == pc[t] = "done" /\ boundVm[t] # NoVm

\* C2: once the pipeline of a task that claimed a sandbox has ended, the task in a
\* terminal status, backend.destroy_vm has been invoked for that sandbox exactly
\* once: not zero times, not twice.
C2_DestroyedOnce ==
  \A t \in Tasks :
    (EndedBound(t) /\ status[t] \in Terminal) => destroyCalls[boundVm[t]] = 1

\* C3: a pipeline that cancel_task cancelled at one of its suspension points ends
\* with release_vm completed (the sandbox out of the claimed map and the registry,
\* and destroyed) and the task cancelled. No backend call has failed.
C3_CancelReleases ==
  \A t \in Tasks :
    (EndedBound(t) /\ raising[t] /\ cancelCall[t] = <<>> /\ failures = 0)
      => /\ status[t] = "cancelled"
         /\ claimed[t] = NoVm
         /\ boundVm[t] \notin all_vms
         /\ vmState[boundVm[t]] = "destroyed"

NonTerminal == {"pending", "claiming_vm", "running", "creating_pr"}
StatusEdges ==
  {<<"pending", "claiming_vm">>, <<"claiming_vm", "running">>,
   <<"running", "creating_pr">>, <<"running", "completed">>,
   <<"running", "failed">>, <<"running", "cancelled">>,
   <<"creating_pr", "completed">>}
  \cup {<<s, "cancelled">> : s \in NonTerminal}

\* C4: every change of a task's status is an edge of the status graph (with
\* cancellation from any non-terminal status), so that a terminal status never
\* changes.
C4_StatusGraph ==
  [][\A t \in Tasks :
       status'[t] # status[t] => <<status[t], status'[t]>> \in StatusEdges]_vars

\* C7: of two waiting tasks of equal priority the dispatch loop takes the one
\* submitted first, whatever their ids.
C7_TiesFifo ==
  [][\A t \in Tasks : \A u \in Tasks :
       (Dispatched(t) /\ u \in queue' /\ prio[t] = prio[u])
         => SubmitPos(t) < SubmitPos(u)]_vars

\* release_vm(t) has just completed, its destroy_vm succeeded, and no other
\* operation changed the registry since claim_vm(t)
CycleDone(t) ==
  /\ pc[t] = "r_log"
  /\ quiet[t]
  /\ vmState[boundVm[t]] = "destroyed"

\* C9, as stated: after claim_vm(t) then release_vm(t) the registry has the size
\* it had before the claim.
C9_SameSize ==
  \A t \in Tasks : CycleDone(t) => Cardinality(all_vms) = Cardinality(preReg[t])

\* C9, amended: after claim_vm(t) then release_vm(t) the registry is the registry
\* before the claim without the sandbox of t: one smaller when the sandbox came
\* from the ready FIFO, where the fill had registered it, the same size when it
\* was created on the emergency path; it never grows.
C9_RegistryFrame ==
  \A t \in Tasks : CycleDone(t) =>
    /\ all_vms = preReg[t] \ {boundVm[t]}
    /\ Cardinality(all_vms) <= Cardinality(preReg[t])

\* a cycle completed on a sandbox of the ready FIFO
C9_Witness ==
  \E t \in Tasks : CycleDone(t) /\ boundVm[t] \in preReg[t]

\* a cycle completed on a sandbox of the emergency path
C9_EmergencyCycle ==
  \E t \in Tasks : CycleDone(t) /\ boundVm[t] \notin preReg[t]

\* a claim has just taken a sandbox from a full ready FIFO
ClaimedFromFull ==
  \E t \in Tasks :
    pc[t] = "claimed" /\ boundVm[t] \in preReg[t] /\ Len(pool) = TargetSize - 1

\* C10: after a claim from a full ready FIFO, with the refill loop scheduled
\* fairly, the ready count returns to the target size unless a backend call fails.
C10_RefillsToTarget ==
  (ClaimedFromFull /\ failures = 0) ~> (Len(pool) = TargetSize \/ failures > 0)

\* the step in which a direct release_vm(t) has the lock of line 352: the call
\* itself when the lock is free, the wake-up of the waiting call otherwise
DirectInLock(t) ==
  \/ dpc[t] = "idle" /\ directCalls'[t] # directCalls[t] /\ dpc'[t] # "release"
  \/ dpc[t] = "release" /\ dpc'[t] # "release"

\* C11: release_vm(t) for an id with no bound sandbox (never claimed, or already
\* released) raises nothing, makes no backend call and leaves the ready FIFO,
\* the claimed map, the registry and every sandbox record as they were; so a
\* second release of the same id is a no-op. (The call returns in the step
\* that finds nothing bound, the lock free again.)
C11_ReleaseUnboundNoop ==
  [][\A t \in Tasks :
       (DirectInLock(t) /\ claimed[t] = NoVm) =>
         /\ dpc'[t] = "idle"
         /\ lock' = NoTask
         /\ UNCHANGED <<pool, claimed, claimedKeys, all_vms, destroyCalls, vmState,
                        vmTask, failures, raising, pc>>]_vars

\* release_vm was called again, and has returned, for an id whose sandbox the
\* pipeline's own release_vm had already released and destroyed
C11_Witness ==
  \E t \in Tasks :
    /\ directCalls[t] >= 1 /\ dpc[t] = "idle"
    /\ boundVm[t] # NoVm /\ claimed[t] = NoVm /\ pc[t] = "done"
    /\ vmState[boundVm[t]] = "destroyed" /\ destroyCalls[boundVm[t]] = 1

\* release_vm was called for an id that never held a sandbox
C11_NeverBound ==
  \E t \in Tasks : directCalls[t] >= 1 /\ boundVm[t] = NoVm /\ t \notin tasks

\* C12: cancel_task(id) for an id that was never submitted returns False and
\* changes nothing: no status, no queue entry, no pipeline and no sandbox.
C12_CancelUnknown ==
  [][\A t \in Tasks :
       (cancelRet'[t] # cancelRet[t] /\ t \notin tasks) =>
         /\ cancelRet'[t] = Append(cancelRet[t], FALSE)
         /\ UNCHANGED <<poolVars, vmVars, queueVars, pipeVars, fieldVars>>]_vars

\* cancel_task has returned False for an id the queue does not know
C12_Witness ==
  \E t \in Tasks :
    /\ t \notin tasks
    /\ cancelRet[t] # <<>>
    /\ cancelRet[t][Len(cancelRet[t])] = FALSE

\* C13: once a task has been cancelled through cancel_task(id), a later
\* cancel_task(id) returns False.
C13_SecondCancelFalse ==
  [][\A t \in Tasks :
       (cancelRet'[t] # cancelRet[t] /\ cancelCall[t] = <<>>
          /\ t \in tasks /\ status[t] = "cancelled"
          /\ cancelRet[t] # <<>> /\ cancelRet[t][Len(cancelRet[t])] = TRUE) =>
         cancelRet'[t] = Append(cancelRet[t], FALSE)]_vars

\* C14: a task in a terminal status (completed, failed, cancelled) has
\* completed_at and duration_seconds both written, exactly once; a task in a
\* non-terminal status has neither.
C14_TerminalStamps ==
  \A t \in Tasks :
    IF status[t] \in Terminal
      THEN completed_at[t] = 1 /\ duration_seconds[t] = 1
      ELSE completed_at[t] = 0 /\ duration_seconds[t] = 0

\* the lint, test and repair results of the run, in order
GateSteps == SelectSeq(rsteps, LAMBDA r : r.step \in {"lint", "test", "repair"})

\* first lint fails, one repair, second lint passes, tests pass
OneLintRepair ==
  /\ Len(GateSteps) = 4
  /\ GateSteps[1].step = "lint" /\ ~GateSteps[1].success
  /\ GateSteps[2].step = "repair"
  /\ GateSteps[3].step = "lint" /\ GateSteps[3].success
  /\ GateSteps[4].step = "test" /\ GateSteps[4].success

\* C16: when the gate (lint or test) fails in every iteration of the repair
\* loop, the agent stage ends after max_repair_iterations iterations and the
\* task is failed with the message "Max repair iterations (5) exhausted".
C16_GateExhausted ==
  [][\A t \in Tasks :
       (pc[t] = "run_cb" /\ agentEnv[t] = "gate_fails" /\ pc'[t] # "run_cb") =>
         (status'[t] = "failed" /\ error_message'[t] = ErrMaxRepair)]_vars

\* C17: a run whose first lint fails, is repaired once, and whose second lint
\* and tests pass, ends successfully with iterations_used = 1.
C17_OneRepairOneIteration ==
  (rpc = "returned" /\ OneLintRepair /\ rsuccess) => riter = 1

\* C18: when the agent stage does not end within the task's timeout, the task
\* is failed with the timeout message.
C18_OverallTimeout ==
  [][\A t \in Tasks :
       (pc[t] = "run_cb" /\ agentEnv[t] = "hangs" /\ pc'[t] # "run_cb") =>
         (status'[t] = "failed" /\ error_message'[t] = ErrTaskTimedOut)]_vars

\* C19: a run in which a sandbox command ran into its step timeout (exit code
\* 124) ends in failure.
C19_StepTimeoutFails ==
  (rpc = "returned"
     /\ \E i \in 1 .. Len(rsteps) : rsteps[i].error = ErrCommandTimedOut) =>
    ~rsuccess

\* C20: every change of a task's status, the terminal ones included, is made
\* by a step that then awaits the status callback with the task.
C20_CallbackOnTransition ==
  [][\A t \in Tasks :
       status'[t] # status[t] => (pc'[t] \in InCallback /\ pc'[t] # pc[t])]_vars

\* C22: a claim creates a sandbox on demand exactly once when the ready FIFO is
\* empty at claim time and never when it is not: the sandbox bound to the task
\* is the head of the FIFO if one is ready (no record is allocated), otherwise
\* the one record the claim allocated, once its "Pool empty" warning was
\* logged, created and warmed.
C22_OnDemandOnlyWhenEmpty ==
  [][\A t \in Tasks :
       /\ (pc[t] \in {"claim", "claim_wait"} /\ pc'[t] = "c_log") =>
            (pool = <<>> /\ nextVm' = nextVm /\ claimed'[t] = NoVm)
       /\ (pc[t] = "c_log" /\ pc'[t] = "c_create") =>
            (pool = <<>> /\ nextVm' = nextVm + 1 /\ cvm'[t] = nextVm + 1
               /\ claimed'[t] = NoVm)
       /\ pc'[t] = "c_create" => pc[t] \in {"c_log", "c_create"}
       /\ (pc[t] \in {"claim", "claim_wait"} /\ pc'[t] = "claimed") =>
            (pool # <<>> /\ claimed'[t] = Head(pool) /\ pool' = Tail(pool)
               /\ nextVm' = nextVm)
       /\ (pc[t] = "c_create" /\ pc'[t] = "c_warm") =>
            (nextVm' = nextVm /\ cvm'[t] = cvm[t] /\ pool' = pool)
       /\ (pc[t] = "c_warm" /\ pc'[t] = "c_ready") =>
            (claimed'[t] = NoVm /\ nextVm' = nextVm /\ cvm'[t] = cvm[t] /\ pool' = pool)
       /\ (pc[t] \in {"c_warm", "c_ready"} /\ pc'[t] = "claimed") =>
            (claimed'[t] = cvm[t] /\ nextVm' = nextVm /\ pool' = pool)]_vars

\* one task holds a sandbox it took from the FIFO while another holds one that
\* its claim created on demand
C22_Witness ==
  \E t \in Tasks : \E u \in Tasks :
    /\ pc[t] = "claimed" /\ claimed[t] \in preReg[t]
    /\ pc[u] \in {"claimed", "run_cb"} /\ claimed[u] # NoVm /\ claimed[u] \notin preReg[u]

\* C27: no coroutine holds the pool lock while it is inside a backend call
\* (create_vm, warm_vm, destroy_vm): a pipeline in claim_vm's on-demand
\* creation or in release_vm's destroy, a fill in its gather, stop() in its
\* destroy loop.
C27_NoLockInBackendCall ==
  /\ \A t \in Tasks : pc[t] \in {"c_create", "c_warm", "c_ready", "r_destroy"} => lock # t
  /\ \A P \in FillProcs : fpc[P] = "gather" => lock # P
  /\ stopPc = "destroy" => lock # StopProc

\* a fill of P is between setting the flag and clearing it
FillActive(P) ==
  fpc[P] \in {"fill_log", "gather", "gathered", "append_log", "finally", "finally_c"}

\* C28: at most one fill is in progress at any time, and an invocation of
\* _fill_pool made while the flag is set returns without creating a sandbox:
\* a process gets past the flag test only while _filling is clear, setting it,
\* and starts its gather only from there.
C28_OneFillAtATime ==
  /\ [](~(FillActive(StartProc) /\ FillActive(LoopProc)))
  /\ [][\A P \in FillProcs :
          /\ (fpc[P] # "fill_log" /\ fpc'[P] = "fill_log") => (~filling /\ filling')
          /\ (fpc[P] # "gather" /\ fpc'[P] = "gather") => (fpc[P] = "fill_log" /\ filling)]_vars

\* the initial fill is creating its sandboxes and the refill loop, which finds
\* the FIFO below the threshold, is about to call _fill_pool
C28_Witness ==
  /\ filling
  /\ fpc[StartProc] = "gather"
  /\ fpc[LoopProc] = "check"
  /\ RefillBelowThreshold(Len(pool))
  /\ LockIdle

\* start() returns: its _fill_pool has ended
StartReturns == fpc[StartProc] # "done" /\ fpc'[StartProc] = "done"

\* C30: start() performs the initial fill and only then spawns the refill
\* loop (the loop does not exist while the initial fill is in progress), and
\* when start() returns with no backend failure the ready FIFO holds exactly
\* TargetSize sandboxes.
C30_FillThenSpawn ==
  /\ [](FillActive(StartProc) => fpc[LoopProc] = "none")
  /\ [][(StartReturns /\ failures' = 0) => Len(pool') = TargetSize]_vars

\* C30, amended: start() spawns the refill loop and then performs the initial
\* fill, with the loop running beside it; when start() returns with no backend
\* failure the ready FIFO holds exactly TargetSize sandboxes, under every
\* scheduling of the refill loop relative to the initial fill.
C30_StartFillsToTarget ==
  [][(StartReturns /\ failures' = 0) =>
       (Len(pool') = TargetSize /\ fpc'[LoopProc] = "check" /\ ~filling')]_vars

\* start() has returned with a full FIFO and no failure, before anything else
\* ran
C30_Witness ==
  /\ fpc[StartProc] = "done"
  /\ fpc[LoopProc] = "check"
  /\ failures = 0
  /\ Len(pool) = TargetSize
  /\ lpc = "none"

\* a fill process whose gather met a creation failure holds v, created and
\* warmed, among its results
FailedFillHolds(v) ==
  \E P \in FillProcs :
    Failed \in Range(fresults[P]) /\ v \in Range(fresults[P]) /\ vmState[v] = "ready"

\* the model has used up its sandbox records while a call needs one more: a
\* gather with a call still to start, or an on-demand claim about to make
\* its record (it holds the pool lock, or is the waiter the lock was handed
\* to and finds the FIFO empty)
RecordStarved ==
  /\ nextVm >= MaxVMs
  /\ \/ \E P \in FillProcs : fpc[P] = "gather" /\ NotStarted \in Range(fresults[P])
     \/ \E t \in Tasks : pc[t] = "c_log"
     \/ \E t \in Tasks : pc[t] = "claim_wait" /\ Woken(t) /\ PoolEmpty(pool)

\* C29: a creation failure during a fill does not stop refilling: the sandboxes
\* the fill did create reach the ready FIFO, the fill-in-progress flag is
\* cleared, the refill loop keeps running, and with the backend succeeding
\* again, once no fill is in progress and the ready FIFO is empty, a later
\* fill puts sandboxes into it (unless the model runs out of sandbox records
\* under a call that needs one)
C29_FailureDoesNotStopRefill ==
  /\ \A v \in VMs : (FailedFillHolds(v) ~> v \in Range(pool))
  /\ ((failures > 0 /\ filling) ~> (~filling \/ RecordStarved))
  /\ [](failures > 0 => fpc[LoopProc] \in {"check", "begin", "fill_log", "gather",
                                            "gathered", "append_log", "finally"})
  /\ ((failures = MaxBackendFailures /\ ~filling /\ pool = <<>>)
        ~> (pool # <<>> \/ RecordStarved))

\* after a failed creation, a later fill has put a sandbox into the ready FIFO
C29_Witness ==
  /\ failures > 0
  /\ ~filling
  /\ fpc[LoopProc] = "check"
  /\ \E w \in VMs : \E v \in Range(pool) :
       vmState[w] \in {"creating", "warming"} /\ v > w + 1
  /\ ~RecordStarved

\* the edges of the sandbox life cycle (a record not yet allocated is "none";
\* "error" may be entered from every state that is not terminal)
LifecycleEdges ==
  {<<"none", "creating">>, <<"creating", "warming">>, <<"warming", "ready">>,
   <<"ready", "claimed">>, <<"claimed", "cleaning">>, <<"cleaning", "destroyed">>}
    \cup {<<s, "error">> : s \in {"creating", "warming", "ready", "claimed", "cleaning"}}

\* paths of the life cycle that one step of the model covers: a fill's VM(),
\* create_vm and warm_vm of a sandbox, and the emergency claim's warm_vm
\* followed by vm.claim
PathsInOneStep ==
  {<<"none", "warming">>, <<"none", "ready">>, <<"warming", "claimed">>}

\* C23: every sandbox's state changes only along creating -> warming -> ready
\* -> claimed -> cleaning -> destroyed (or into error): no operation skips a
\* state or moves a sandbox backwards, and destroyed is never left.
C23_LifecycleOneWay ==
  [][\A v \in VMs :
       vmState'[v] # vmState[v] =>
         <<vmState[v], vmState'[v]>> \in LifecycleEdges \cup PathsInOneStep]_vars

\* C24: a sandbox's task_id is set if and only if its state is claimed.
C24_TaskIdIffClaimed ==
  \A v \in VMs : (vmTask[v] # NoTask) <=> (vmState[v] = "claimed")

\* the step of a pipeline that returns from the callback of
\* _update_status(CLAIMING_VM) when no callback fails: it enters claim_vm
EntersClaim(t) ==
  /\ pc'[t] \in {"claim_wait", "c_log", "claimed"}
  /\ status'[t] = status[t]
  /\ error_message'[t] = error_message[t]
  /\ completed_at'[t] = completed_at[t]

\* the errors AgentRunner.run reports for its own steps
StepErrors == {NoError, ErrSetupFailed, ErrCodingFailed, ErrMaxRepair, ErrCommitFailed}

\* C21: a status or step callback that raises does not affect progression: a
\* pipeline whose status callback raised takes the step it takes with no
\* callback (it enters claim_vm, its status and error untouched), and a run of
\* AgentRunner.run whose step callback raised records the step and goes on or
\* stops as the step's own result demands, never with the callback's error.
C21_CallbackFailureIgnored ==
  /\ [][\A t \in Tasks :
          (callback = "raises" /\ pc[t] = "claim" /\ pc'[t] # "claim")
            => EntersClaim(t)]_vars
  /\ [][(callback = "raises" /\ rnotify = "callback" /\ rnotify' # "callback") =>
          /\ rnotify' = "log"
          /\ <<rpc, rsteps, rerror, rsuccess>>' = <<rpc, rsteps, rerror, rsuccess>>]_vars
  /\ [][(callback = "raises" /\ rnotify = "log" /\ rnotify' = "none") =>
          /\ rsteps' = rsteps
          /\ rerror' \in StepErrors
          /\ (rpc' = "stop" /\ ~rsuccess') => rerror' # NoError]_vars

\* with a callback that raises, a pipeline has passed both status callbacks
\* and failed in the agent stage as it does without one
C21_Witness ==
  /\ callback = "raises"
  /\ \E t \in Tasks : /\ pc[t] = "h_log"
                      /\ status[t] = "failed"
                      /\ claimed[t] # NoVm
                      /\ vmState[claimed[t]] = "claimed"

\* C26: a peer-review task whose diff step produces empty output ends its
\* agent stage early as a success: the task completes (with the 'no
\* differences' message as its review output).
C26_EmptyDiffCompletes ==
  [][\A t \in Tasks :
       (pc[t] = "run_cb" /\ agentEnv[t] = "empty_diff" /\ pc'[t] # "run_cb") =>
         status'[t] = "completed"]_vars

\* a task that came from the store's file, not from submit
Restored(t) == t \in tasks /\ t \notin Range(submitSeq)

\* nothing is running or waiting, and the dispatch loop is alive
Quiescent ==
  /\ lpc \in {"top", "get", "get_wait"}
  /\ active = <<>>
  /\ queue = {}
  /\ got = NoTask
  /\ \A t \in Tasks : cancelCall[t] = <<>> /\ ~cancelPending[t]

\* C25: the dispatch loop writes the terminal state of every pipeline it reaps
\* to the task store; while the loop runs, a task that reached a terminal
\* status is persisted with that status (at the latest when nothing is left to
\* run); and a task restored from the store is never dispatched.
C25_TerminalPersisted ==
  /\ [][\A t \in Tasks :
          (t \in Range(active) /\ t \notin Range(active')) => disk'[t] = status'[t]]_vars
  /\ [](Quiescent =>
          \A t \in tasks : status[t] \in Terminal => disk[t] = status[t])
  /\ [](\A t \in Tasks : Restored(t) => pc[t] = "none")

\* the cancellation of the refill task has been requested or has arrived
RefillEnded == loopCancel \/ fpc[LoopProc] \in {"none", "dead", "finally_c"}

\* C31: from the call of stop() on the refill loop is cancelled and no further
\* sandbox is created; the ready FIFO and the claimed map stay as they were at
\* the call, and when stop() has returned every sandbox in them has had
\* destroy_vm invoked on it, also after a destroy_vm that failed.
C31_StopDestroysAll ==
  /\ [](stopPc # "idle" => RefillEnded)
  /\ [][stopPc # "idle" =>
          (nextVm' = nextVm /\ pool' = pool /\ claimed' = claimed)]_vars
  /\ [](stopPc = "done" => \A v \in Range(StopSnapshot) : destroyCalls[v] >= 1)

\* stop() has returned after a destroy_vm that failed on one sandbox and one
\* that worked on a later sandbox
C31_Witness ==
  /\ stopPc = "done"
  /\ fpc[LoopProc] = "dead"
  /\ \E i, j \in 1 .. Len(StopSnapshot) :
       /\ i < j
       /\ vmState[StopSnapshot[i]] # "destroyed"
       /\ destroyCalls[StopSnapshot[i]] = 1
       /\ vmState[StopSnapshot[j]] = "destroyed"


\* ------------------------------------------------ the order of a run's steps
\* the step a step of the run may come right after
ComesAfter(p, s) ==
  CASE s.step = "setup"   -> FALSE
    [] s.step = "analyze" -> p.step = "setup" /\ p.success
    [] s.step = "plan"    -> p.step = "analyze"
    [] s.step = "code"    -> p.step = "plan"
    [] s.step = "lint"    -> (p.step = "code" /\ p.success) \/ p.step = "repair"
    [] s.step = "test"    -> p.step = "lint" /\ p.success
    [] s.step = "repair"  -> p.step \in {"lint", "test"} /\ ~p.success
    [] s.step = "commit"  -> p.step = "test" /\ p.success
    [] OTHER              -> FALSE

\* C32: the steps of a run come in the order setup, analyze, plan, code, then
\* lint, test, repair per iteration, then commit; a test comes only right
\* after a lint that passed, a repair only right after a lint or a test that
\* failed, and the gates and their repair belong to one iteration
C32_StepOrder ==
  /\ [](\A i \in 1 .. Len(rsteps) :
          IF i = 1 THEN rsteps[i].step = "setup"
          ELSE ComesAfter(rsteps[i - 1], rsteps[i]))
  /\ [][(Len(rsteps') > Len(rsteps)
          /\ rsteps'[Len(rsteps')].step \in {"lint", "test"}) => riter' = riter]_vars
  /\ [][(Len(rsteps') > Len(rsteps) /\ rsteps'[Len(rsteps')].step = "repair")
          => riter' \in {riter, riter + 1}]_vars

\* a finished run whose lint failed once, whose tests failed once, and which
\* committed in the end
C32_Witness ==
  /\ rpc = "returned" /\ rsuccess
  /\ \E i, j \in 1 .. Len(rsteps) - 1 :
       /\ rsteps[i].step = "lint" /\ ~rsteps[i].success /\ rsteps[i + 1].step = "repair"
       /\ rsteps[j].step = "test" /\ ~rsteps[j].success /\ rsteps[j + 1].step = "repair"
  /\ rsteps[Len(rsteps)].step = "commit"


\* --------------------------------------------------- the gates and the commit
\* where the last iteration of the repair loop begins: after the code step or
\* after the last repair
LastIterStart ==
  LET S == {i \in 1 .. Len(rsteps) : rsteps[i].step \in {"code", "repair"}}
  IN  IF S = {} THEN 0 ELSE CHOOSE i \in S : \A j \in S : j <= i

GatePassed(g) ==
  \E i \in (LastIterStart + 1) .. Len(rsteps) : rsteps[i].step = g /\ rsteps[i].success

GateFailed ==
  \E i \in (LastIterStart + 1) .. Len(rsteps) :
    rsteps[i].step \in {"lint", "test"} /\ ~rsteps[i].success

Committed == \E i \in 1 .. Len(rsteps) : rsteps[i].step = "commit"

\* C33: a run commits, and reports success, only when the lint and the tests
\* of its last iteration both passed; a runner whose limit is 0 never commits
C33_CommitOnlyAfterGates ==
  /\ (Committed \/ rsuccess \/ rpc = "commit") =>
       (LastIterStart > 0 /\ GatePassed("lint") /\ GatePassed("test") /\ ~GateFailed)
  /\ rsuccess => Committed
  /\ maxRepair = 0 => (~Committed /\ ~rsuccess /\ rpc # "commit")

\* a run that committed and succeeded in an iteration that followed a failed
\* one
C33_Witness ==
  /\ rpc = "returned" /\ rsuccess /\ Committed
  /\ \E i \in 1 .. LastIterStart : rsteps[i].step = "test" /\ ~rsteps[i].success

\* a run of a runner with the limit 0 that came back after its code step
C33_ZeroLimitRun ==
  /\ rpc = "returned" /\ maxRepair = 0
  /\ rsteps # <<>> /\ rsteps[Len(rsteps)].step = "code" /\ rsteps[Len(rsteps)].success


\* ------------------------------------------------- the answers of the engine
StepTaken == Len(rsteps') = Len(rsteps) + 1
\* where a run goes after a repair: the next iteration, or the else clause of
\* the loop
AfterRepair == IF riter < maxRepair THEN "lint" ELSE "stop"

\* C34: a code step that failed is the last step of its run and the run is
\* not successful; an analyze, plan or repair step to which the engine
\* answered with a failure is recorded as a success and the run goes on to
\* what follows that step
C34_CodeFatalOthersBestEffort ==
  /\ [](\A i \in 1 .. Len(rsteps) :
          (rsteps[i].step = "code" /\ ~rsteps[i].success) =>
             /\ i = Len(rsteps)
             /\ ~rsuccess
             /\ IF rnotify # "none" THEN rpc = "code"
                ELSE rpc \in {"stop", "returned"} /\ rerror = ErrCodingFailed)
  /\ [][(StepTaken /\ eng'.answer = "fails"
          /\ rsteps'[Len(rsteps')].step \in {"analyze", "plan", "repair"}) =>
            /\ rsteps'[Len(rsteps')].success
            /\ rnotify' = "callback"
            /\ <<rpc, rerror>>' = <<rpc, rerror>>]_vars
  /\ [][(rnotify # "none" /\ rnotify' = "none" /\ eng.answer = "fails"
          /\ rpc \in {"analyze", "plan", "repair"}) =>
            /\ rerror' = (IF rpc = "repair" /\ AfterRepair = "stop"
                          THEN ErrExhausted(maxRepair) ELSE NoError)
            /\ rpc' = (CASE rpc = "analyze" -> "plan"
                         [] rpc = "plan" -> "code"
                         [] rpc = "repair" -> AfterRepair)]_vars

\* a run that went back to the linter after a repair the engine failed
C34_Witness ==
  /\ rpc = "lint" /\ eng.answer = "fails"
  /\ LastStep.step = "repair" /\ LastStep.success

\* ------------------------------------------------- the lifecycle of the engine
Ended == rpc \in {"returned", "raised"}

\* C39: however a run ends, the engine's stop has been called exactly once
\* by then and not before, start at most once, and no prompt reached the
\* engine before its start or after its stop
C39_EngineLifecycle ==
  /\ eng.starts <= 1
  /\ eng.stops = (IF Ended THEN 1 ELSE 0)
  /\ ~eng.misused

\* a run cancelled while a prompt was with the engine, and ended
C39_Witness ==
  /\ rpc = "raised" /\ eng.answer = "raises" /\ eng.starts = 1 /\ eng.stops = 1

\* the other endings: a setup that failed, an exhausted loop, a timeout
C39_OtherEndings ==
  /\ rpc = "returned" /\ eng.stops = 1
  /\ rerror \in {ErrSetupFailed, ErrMaxRepair, ErrTaskTimedOut, ErrCodingFailed}


\* ------------------------------------------------------- the size of the pool
\* C35: the ready FIFO never holds more than target_size sandboxes
C35_PoolWithinTarget == Len(pool) <= TargetSize

\* the pool filled to the target again by the refill loop while a task holds
\* a sandbox it claimed from it
C35_Witness ==
  /\ Len(pool) = TargetSize
  /\ \E t \in Tasks : claimed[t] # NoVm
  /\ fpc[LoopProc] = "check"
  /\ nextVm > TargetSize


\* ----------------------------------------------------------- orphaned sandboxes
\* the backend has created the sandbox and has not destroyed it
Alive(v) == vmState[v] \in {"warming", "ready", "claimed", "cleaning"}

\* a fill, a claim_vm, a release_vm or a stop() that is still running holds it
HeldByCall(v) ==
  \/ \E P \in FillProcs :
       fpc[P] \in {"gather", "gathered", "append_log"} /\ v \in Range(fresults[P])
  \/ \E t \in Tasks : cvm[t] = v /\ pc[t] \in {"c_warm", "c_ready", "r_destroy", "r_lock2"}
  \/ \E t \in Tasks : dvm[t] = v /\ dpc[t] \in {"r_destroy", "r_lock2"}
  \/ stopPc \notin {"idle", "done"} /\ v \in Range(stopList)

\* C36: every sandbox that is created and not destroyed is in the ready FIFO,
\* in the claimed map, or held by a call that is still in progress
C36_NoOrphan ==
  \A v \in VMs :
    Alive(v) => (v \in Range(pool) \/ (\E t \in Tasks : claimed[t] = v) \/ HeldByCall(v))


\* ------------------------------------------------- cancelled before dispatch
\* C37: a task cancelled while it waits in the queue is never dispatched: the
\* dispatch loop does not take it out of the queue and starts no pipeline
\* for it
C37_CancelledNotDispatched ==
  [][\A t \in Tasks :
       (t \in queue /\ status[t] = "cancelled") =>
          (got' # t /\ t \notin Range(active') /\ pc'[t] = pc[t])]_vars


\* ------------------------------------------------------- after a release
\* C38: once release_vm(t) for a bound task has returned or raised, the
\* sandbox it released is neither in the claimed map nor in the registry
C38_ReleasedUnregistered ==
  \A t \in Tasks :
    (pc[t] \in {"r_log", "done"} /\ cvm[t] # NoVm) =>
       (cvm[t] \notin all_vms /\ \A u \in Tasks : claimed[u] # cvm[t])


\* ------------------------------------------------------ every task terminates
\* the model has no record left for a sandbox created on demand
NoRecordLeft == nextVm >= MaxVMs

\* C40: every submitted task eventually has a terminal status and is
\* eventually out of the active map (as long as the model has records for
\* the sandboxes the run needs)
C40_EveryTaskTerminates ==
  \A t \in Tasks :
    (t \in tasks) ~> ((status[t] \in Terminal /\ t \notin Range(active)) \/ NoRecordLeft)

\* both tasks were run and reaped while records were left
C40_BothReaped ==
  /\ \A t \in Tasks : status[t] \in Terminal /\ pc[t] = "done" /\ t \notin Range(active)
  /\ ~NoRecordLeft

====
